---- MODULE Spec2Model ----
(***************************************************************************)
(* Model of the umay load-balancing core: the backend registry (Backends), *)
(* the two discovery sources (DnsDiscovery, LocalDiscovery), the refresh   *)
(* task, and the selectors of balance/mod.rs (enum Selector) and of        *)
(* balance/selection.rs (trait SelectionAlgorithm); and of the stream proxy *)
(* over it: the accept loop of run_service, handle_connection with its TLS *)
(* termination, selection and dial, the two copies of proxy_tcp and the    *)
(* loop of proxy_ws; of the supervisor (main, UmayServer::run and its      *)
(* shutdown); and of the ProxyServer of proxy.rs.                          *)
(*                                                                         *)
(* Arc<BTreeSet<Backend>> values live in a small heap `arcs` of slots; a   *)
(* pointer is a slot number (0 = no pointer).  A slot nobody points to is  *)
(* dropped (its contents reset) and may be allocated again.                *)
(***************************************************************************)
EXTENDS Integers, Sequences, FiniteSets

\* ------------------------------------------------------------- bounds
MaxAddrs == 2        \* socket addresses 1..MaxAddrs, ordered as SocketAddr is
NumReaders == 1      \* concurrent callers of select
MaxPub == 2          \* stores the refresh task performs
MaxSelects == 4      \* consecutive selections on one snapshot in SpecBalance
MaxWeight == 3       \* weights of the snapshots drawn in SpecSelect
MaxRun == 8          \* consecutive selections on one snapshot in SpecSelect
NumKeys == 1         \* distinct keys passed to select
UsizeBits == 8       \* scaled width of usize
MaxCount == 2        \* connections counted per address by LeastConnections
NumConns == 2        \* connections arriving at the listener
MaxLen == 2          \* bytes each peer writes on one connection
MaxWrapAddrs == 3    \* snapshot sizes in SpecWrap
NumTasks == 2        \* concurrent callers of increment and decrement
MaxRcu == 2          \* swaps of the count map
MaxVec == 3          \* length of the vectors given to LocalDiscovery
NumOthers == 1       \* stream proxies of a server besides the first
MaxCfg == 2          \* replacements of the TLS server configuration
MaxCalls == 4        \* concurrent calls of select in SpecRoundRobin

Addrs == 1..MaxAddrs
Readers == 1..NumReaders
Slots == 1..(NumReaders + 4)
UsizeModulus == 2 ^ UsizeBits
Conns == 1..NumConns
Tasks == 1..NumTasks
\* the two copies of proxy_tcp: client to upstream, upstream to client
Dirs == {"c2s", "s2c"}
\* the values of a byte; two are enough to tell one stream from the other
Bytes == {1, 2}

\* ------------------------------------------------------------- values
\* Backend::new(addr, weight)
Backend(a, w) == [addr |-> a, weight |-> w]

B1 == Backend(1, 1)
B2 == Backend(2, 1)

\* #[derive(PartialOrd, Ord)] on Backend: lexicographic on (addr, weight)
BackendLt(x, y) == x.addr < y.addr \/ (x.addr = y.addr /\ x.weight < y.weight)

\* BTreeSet::iter(): the elements in increasing order
RECURSIVE Iter(_)
Iter(S) ==
    IF S = {} THEN << >>
    ELSE LET m == CHOOSE x \in S : \A y \in S \ {x} : BackendLt(x, y)
         IN  << m >> \o Iter(S \ {m})

\* Iterator::nth(i) on BTreeSet::iter(); an Option is a set of at most one element
Nth(S, i) == IF i < Cardinality(S) THEN {Iter(S)[i + 1]} ELSE {}

\* the set LocalDiscovery / DnsDiscovery build from a list of addresses: weight 1
Weight1(A) == {Backend(a, 1) : a \in A}

\* Option<&str> keys
KeyOpts == {{}} \cup {{k} : k \in 1..NumKeys}

VARIABLES
    kind,        \* the discovery source of the registry: "Local" or "Dns"
    selector,    \* the selector the balancer was built with
    arcs,        \* heap: slot -> contents of an Arc<BTreeSet<Backend>>
    regPtr,      \* Backends.backends (ArcSwap)
    localPtr,    \* LocalDiscovery.backends (ArcSwap); 0 under "Dns"
    addrSet,     \* the set of addresses the calls on LocalDiscovery have built
    refPc,       \* refresh(): "idle" or "store" (discover returned Ok); "dropped"
                 \* when the future of the refresh task was dropped unpolled
    refRes,      \* the Arc discover returned, until it is stored
    refDisc,     \* the contents discover returned to the refresh in progress
    refreshing,  \* number of refresh() calls that have started and not returned
    lastRefresh, \* how the last completed refresh() returned: "none", "ok", "err"
    pubCount,    \* number of stores into Backends.backends so far
    held,        \* reader -> the handle get_backends returned (0 = none)
    heldSnap,    \* reader -> contents of that handle when it was returned
    seen,        \* reader -> publication index of its last get_backends
    index,       \* selection::RoundRobin / WeightedRoundRobin .index (AtomicUsize)
    counter,     \* Selector::RoundRobin(Arc<Mutex<usize>>)
    conns,       \* Selector::LeastConnection(Arc<Mutex<Vec<(Backend, usize)>>>)
    connections, \* selection::LeastConnections.connections: addr -> count
    trace,       \* the latest selections, all made on one and the same snapshot
    fresh,       \* trace holds every selection made since construction
    protocol,    \* stream_config.listen().protocol()
    others,      \* the run_service tasks of the other stream proxies of the server
    sender,      \* the sender of the shutdown channel: "live" or "dropped"
    listener,    \* run_service: "accepting" in its loop, "stopped" after the break
    signalled,   \* the shutdown channel has changed
    pc,          \* connection -> where its handle_connection task is
    sni,         \* connection -> the server name its ClientHello presented
    serverTls,   \* connection -> the ServerTls terminate returned
    tls,         \* tls::Server of tls/mod.rs: its watch channels and handshakes
    selected,    \* connection -> the Option<Backend> select returned
    upstream,    \* connection -> address of its open upstream stream (0 = none)
    failure,     \* connection -> the error its task ended with ("" = none)
    nSelect,     \* connection -> calls of load_balancer.select made for it
    nDial,       \* connection -> upstream connects attempted for it
    wrote,       \* connection, direction -> the bytes the source peer has written
    closed,      \* connection, direction -> the source peer has shut down its writes
    nread,       \* connection, direction -> bytes the copy has read from the source
    buf,         \* connection, direction -> bytes read and not yet written
    delivered,   \* connection, direction -> the bytes written to the destination
    half,        \* connection, direction -> state of the copy future
    rcu,         \* the calls of rcu on the count map that are in progress
    rr,          \* the concurrent calls of select on a round-robin selector
    run,         \* where the run() of the server is, "unset" when no server runs
    main,        \* where the process is, and how it exited; "unset" without a process
    completions  \* messages sent on shutdown_complete_tx

superVars == << run, main, completions >>

listenVars == << protocol, others, sender, listener, signalled, superVars >>

connVars == << pc, sni, serverTls, tls, selected, upstream, failure,
               nSelect, nDial >>

copyVars == << wrote, closed, nread, buf, delivered, half >>

proxyVars == << listenVars, connVars, copyVars >>

selVars == << index, counter, conns, connections, rcu, rr, trace, fresh >>

vars == << kind, selector, arcs, regPtr, localPtr, addrSet, refPc, refRes, refDisc,
           refreshing, lastRefresh, pubCount, held, heldSnap, seen, selVars, proxyVars >>

\* ------------------------------------------------------------- heap
LiveSet(reg, loc, res, h) == ({reg, loc, res} \cup {h[r] : r \in Readers}) \ {0}

Live == LiveSet(regPtr, localPtr, refRes, held)

\* Arc::new: the lowest slot nobody points to
FreeSlot == CHOOSE s \in Slots \ Live : \A t \in Slots \ Live : s <= t

\* the pointers of the program, in a fixed order
Roots(reg, loc, res, h) == << reg, loc, res >> \o [i \in 1..NumReaders |-> h[i]]

\* the slots the pointers of roots reach, in the order of the first pointer to each
RECURSIVE FirstUse(_, _)
FirstUse(roots, order) ==
    IF roots = << >> THEN order
    ELSE IF Head(roots) = 0 \/ \E n \in 1..Len(order) : order[n] = Head(roots)
    THEN FirstUse(Tail(roots), order)
    ELSE FirstUse(Tail(roots), Append(order, Head(roots)))

\* The next heap and pointers.  Slot numbers stand for addresses, which the program
\* never compares or orders, so the live slots are renumbered in the order of the
\* first pointer to each; a slot no pointer reaches is dropped with its contents.
Commit(a, reg, loc, res, h) ==
    \E order \in {FirstUse(Roots(reg, loc, res, h), << >>)} :
    \E map \in {[ptr \in 0..Cardinality(Slots) |->
                    IF \E n \in 1..Len(order) : order[n] = ptr
                    THEN CHOOSE n \in 1..Len(order) : order[n] = ptr
                    ELSE 0]} :
        /\ arcs' = [n \in Slots |-> IF n <= Len(order) THEN a[order[n]] ELSE {}]
        /\ regPtr' = map[reg]
        /\ localPtr' = map[loc]
        /\ refRes' = map[res]
        /\ held' = [r \in Readers |-> map[h[r]]]

\* ------------------------------------------------------------- construction
\* the selectors of balance/mod.rs (prefix "lb.") and of balance/selection.rs
LbSelectors == {"lb.Random", "lb.RoundRobin", "lb.LeastConnection", "lb.ConsistentHashing"}
AlgSelectors == {"RoundRobin", "WeightedRoundRobin", "LeastConnections", "Random",
                 "ConsistentHashing"}

\* the vectors a caller can hand to Selector::LeastConnection: the backends of S in
\* order, those of hot with one connection, the others with none
ConnsOf(S, hot) ==
    [i \in 1..Cardinality(S) |->
        [backend |-> Iter(S)[i], count |-> IF Iter(S)[i] \in hot THEN 1 ELSE 0]]

ConnsInits == {ConnsOf(S, hot) : S \in SUBSET Weight1(Addrs), hot \in SUBSET Weight1(Addrs)}

\* LeastConnections::default(): BTreeMap::new()
NoCounts == [a \in {} |-> 0]

\* no call of rcu is in progress.  ver counts the swaps of the ArcSwap and stands
\* for the identity of the Arc it holds; net is, per address, the increments less
\* the decrements that found a positive count
IdleTask == [pc |-> "idle", op |-> "none", addr |-> 0, ver |-> 0, cur |-> NoCounts]

NoRcu == [ver |-> 0, net |-> [a \in Addrs |-> 0], task |-> [t \in Tasks |-> IdleTask]]

\* no call of select is in progress and none has returned.  val is the value a call
\* got from the counter; done holds, in the order of their returns, the calls that
\* have returned: the value each got and the Option<Backend> it returned
NoRr == [task |-> [t \in Tasks |-> [pc |-> "idle", val |-> 0]], done |-> << >>]

\* a ServerConfig: the version of the credentials it was built from, and whether
\* the ALPN protocols of spawn_with_alpn were set in it
Cfg(v, alpn) == [ver |-> v, alpn |-> alpn]

\* a tls::Server over a channel that holds the first configuration, not yet passed
\* to spawn_with_alpn, and no handshake
NoTls == [alpn |-> FALSE, orig |-> 0, tx |-> "live", seen |-> 0, rx |-> Cfg(0, FALSE),
          relay |-> "none", used |-> [c \in Conns |-> {}]]

\* no connection has arrived: every handle_connection task is still to be spawned
InitConns ==
    /\ pc = [c \in Conns |-> "pending"]
    /\ sni = [c \in Conns |-> "unset"]
    /\ serverTls = [c \in Conns |-> "unset"]
    /\ tls = NoTls
    /\ selected = [c \in Conns |-> {}]
    /\ upstream = [c \in Conns |-> 0]
    /\ failure = [c \in Conns |-> ""]
    /\ nSelect = [c \in Conns |-> 0]
    /\ nDial = [c \in Conns |-> 0]

\* no stream is being copied
InitCopies ==
    /\ wrote = [c \in Conns |-> [d \in Dirs |-> << >>]]
    /\ closed = [c \in Conns |-> [d \in Dirs |-> FALSE]]
    /\ nread = [c \in Conns |-> [d \in Dirs |-> 0]]
    /\ buf = [c \in Conns |-> [d \in Dirs |-> << >>]]
    /\ delivered = [c \in Conns |-> [d \in Dirs |-> << >>]]
    /\ half = [c \in Conns |-> [d \in Dirs |-> "unset"]]

\* no process and no server: the parts are driven directly
InitNoServer ==
    /\ run = "unset"
    /\ main = "unset"
    /\ completions = 0

\* the balancer on its own: no listener is bound
InitNoProxy ==
    /\ protocol = "Tcp"
    /\ others = << >>
    /\ sender = "live"
    /\ listener = "unbound"
    /\ signalled = FALSE
    /\ InitNoServer
    /\ InitConns
    /\ InitCopies

\* Backends::new over LocalDiscovery::with_backends(initial) or DnsDiscovery::new,
\* LoadBalancer::new with a fresh selector
InitSelectors ==
    /\ selector \in LbSelectors \cup AlgSelectors
    /\ index = 0
    /\ counter = 0
    /\ conns \in (IF selector = "lb.LeastConnection" THEN ConnsInits ELSE {<< >>})
    /\ connections = NoCounts
    /\ rcu = NoRcu
    /\ rr = NoRr
    /\ trace = << >>
    /\ fresh = TRUE

InitReaders ==
    /\ held = [r \in Readers |-> 0]
    /\ heldSnap = [r \in Readers |-> {}]
    /\ seen = [r \in Readers |-> 0]

InitRegistry ==
    /\ kind \in {"Local", "Dns"}
    /\ regPtr = 1
    /\ \E initial \in SUBSET Addrs :
          IF kind = "Local"
          THEN /\ localPtr = 2
               /\ addrSet = initial
               /\ arcs = [s \in Slots |-> IF s = 2 THEN Weight1(initial) ELSE {}]
          ELSE /\ localPtr = 0
               /\ addrSet = {}
               /\ arcs = [s \in Slots |-> {}]
    /\ refPc = "idle"
    /\ refRes = 0
    /\ refDisc = {}
    /\ refreshing = 0
    /\ lastRefresh = "none"
    /\ pubCount = 0

\* no balancer: the registry and the callers of its public get_backends
InitNoSelector ==
    /\ selector = "none"
    /\ index = 0
    /\ counter = 0
    /\ conns = << >>
    /\ connections = NoCounts
    /\ rcu = NoRcu
    /\ rr = NoRr
    /\ trace = << >>
    /\ fresh = TRUE

Init == InitRegistry /\ InitReaders /\ InitNoSelector /\ InitNoProxy

InitBalance == InitRegistry /\ InitReaders /\ InitSelectors /\ InitNoProxy

\* the snapshots a discovery source can publish: any addresses, any positive weights
GivenSnapshots ==
    {{Backend(a, w[a]) : a \in A} : A \in SUBSET Addrs, w \in [Addrs -> 1..MaxWeight]}

\* a balancer whose registry has published a snapshot and is not refreshed again; an
\* index or counter other than 0 is left from selections made before
InitSelect ==
    /\ kind = "Given"
    /\ regPtr = 1
    /\ localPtr = 0
    /\ addrSet = {}
    /\ \E snap \in GivenSnapshots : arcs = [s \in Slots |-> IF s = 1 THEN snap ELSE {}]
    /\ refPc = "idle"
    /\ refRes = 0
    /\ refDisc = {}
    /\ refreshing = 0
    /\ lastRefresh = "ok"
    /\ pubCount = 1
    /\ InitReaders
    /\ selector \in LbSelectors \cup AlgSelectors
    /\ index \in (IF selector \in {"RoundRobin", "WeightedRoundRobin"}
                  THEN 0..MaxAddrs ELSE {0})
    /\ counter \in (IF selector = "lb.RoundRobin" THEN 0..(MaxAddrs - 1) ELSE {0})
    /\ conns \in (IF selector = "lb.LeastConnection" THEN ConnsInits ELSE {<< >>})
    /\ connections = NoCounts
    /\ rcu = NoRcu
    /\ rr = NoRr
    /\ trace = << >>
    /\ fresh = (index = 0 /\ counter = 0)
    /\ InitNoProxy

\* ------------------------------------------------------------- discovery
\* the answers of resolver.lookup_ip: an error, or a set of addresses
DnsLookups == {[err |-> TRUE, ips |-> {}]} \cup {[err |-> FALSE, ips |-> A] : A \in SUBSET Addrs}

\* DnsDiscovery::discover: Err on a failed lookup and on an empty set
DnsDiscover(lookup) ==
    IF lookup.err THEN [ok |-> FALSE, set |-> {}]
    ELSE IF Weight1(lookup.ips) = {} THEN [ok |-> FALSE, set |-> {}]
    ELSE [ok |-> TRUE, set |-> Weight1(lookup.ips)]

\* Vec<SocketAddr>: the vectors with_backends and set_backends are given
Vecs == UNION {[1..n -> Addrs] : n \in 0..MaxVec}

\* the addresses a vector holds
Elems(v) == {v[i] : i \in DOMAIN v}

\* a vector holding each address of A once
VecOf(A) == CHOOSE v \in [1..Cardinality(A) -> A] : Elems(v) = A

\* into_iter().map(|addr| Backend::new(addr, 1)).collect() into a BTreeSet: the
\* elements are inserted one after the other, an element already there is kept
RECURSIVE Collect(_)
Collect(v) ==
    IF v = << >> THEN {}
    ELSE LET rest == Collect(SubSeq(v, 1, Len(v) - 1))
             b == Backend(v[Len(v)], 1)
         IN  IF b \in rest THEN rest ELSE rest \cup {b}

\* LocalReplace with the set behind the pointer changed in place, no new Arc
LocalMutateInPlace(new, addrs) ==
    /\ kind = "Local"
    /\ Commit([arcs EXCEPT ![localPtr] = new], regPtr, localPtr, refRes, held)
    /\ addrSet' = addrs
    /\ UNCHANGED << kind, selector, refPc, refDisc, refreshing, lastRefresh, pubCount >>
    /\ UNCHANGED << heldSnap, seen >>
    /\ UNCHANGED selVars
    /\ UNCHANGED proxyVars

\* rcu / store on LocalDiscovery.backends: a new Arc replaces the pointer; addrs is
\* what the same call makes of the set of addresses
LocalReplace(new, addrs) ==
    /\ kind = "Local"
    /\ LET s == FreeSlot
       IN  Commit([arcs EXCEPT ![s] = new], regPtr, s, refRes, held)
    /\ addrSet' = addrs
    /\ UNCHANGED << kind, selector, refPc, refDisc, refreshing, lastRefresh, pubCount >>
    /\ UNCHANGED << heldSnap, seen >>
    /\ UNCHANGED selVars
    /\ UNCHANGED proxyVars

\* add_backend inserting into an empty set instead of the current one
add_backend_replacing(a) == LocalReplace({Backend(a, 1)}, addrSet \cup {a})

add_backend(a) == LocalReplace(arcs[localPtr] \cup {Backend(a, 1)}, addrSet \cup {a})

remove_backend(a) == LocalReplace({b \in arcs[localPtr] : b.addr # a}, addrSet \ {a})

set_backends(v) == LocalReplace(Collect(v), Elems(v))

clear_backends == LocalReplace({}, {})

\* ------------------------------------------------------------- registry
\* refresh_discover_local started at a tick while the last refresh has yet to store
refresh_discover_local_overlapping ==
    /\ kind = "Local"
    /\ pubCount < MaxPub
    /\ refPc' = "store"
    /\ Commit(arcs, regPtr, localPtr, localPtr, held)
    /\ refDisc' = arcs[localPtr]
    /\ refreshing' = refreshing + 1
    /\ UNCHANGED << kind, selector, lastRefresh, pubCount >>
    /\ UNCHANGED << heldSnap, seen >>
    /\ UNCHANGED selVars
    /\ UNCHANGED proxyVars
    /\ UNCHANGED addrSet

\* Backends::refresh up to the `?`: LocalDiscovery::discover hands out its own Arc
refresh_discover_local ==
    /\ kind = "Local"
    /\ refPc = "idle"
    /\ pubCount < MaxPub
    /\ refPc' = "store"
    /\ Commit(arcs, regPtr, localPtr, localPtr, held)
    /\ refDisc' = arcs[localPtr]
    /\ refreshing' = refreshing + 1
    /\ UNCHANGED << kind, selector, lastRefresh, pubCount >>
    /\ UNCHANGED << heldSnap, seen >>
    /\ UNCHANGED selVars
    /\ UNCHANGED proxyVars
    /\ UNCHANGED addrSet

\* refresh_discover_dns with the registry emptied when discovery fails
refresh_discover_dns_clearing(lookup) ==
    /\ kind = "Dns"
    /\ refPc = "idle"
    /\ pubCount < MaxPub
    /\ LET d == DnsDiscover(lookup)
           s == FreeSlot
       IN  IF d.ok
           THEN /\ refPc' = "store"
                /\ Commit([arcs EXCEPT ![s] = d.set], regPtr, localPtr, s, held)
                /\ refDisc' = d.set
                /\ refreshing' = refreshing + 1
                /\ UNCHANGED lastRefresh
           ELSE /\ lastRefresh' = "err"
                /\ Commit([arcs EXCEPT ![s] = {}], s, localPtr, refRes, held)
                /\ UNCHANGED << refPc, refDisc, refreshing >>
    /\ UNCHANGED << kind, selector, pubCount >>
    /\ UNCHANGED << heldSnap, seen >>
    /\ UNCHANGED selVars
    /\ UNCHANGED proxyVars
    /\ UNCHANGED addrSet

\* refresh_discover_dns with the task returning at the first failed refresh
refresh_discover_dns_ending(lookup) ==
    /\ kind = "Dns"
    /\ refPc = "idle"
    /\ pubCount < MaxPub
    /\ LET d == DnsDiscover(lookup)
           s == FreeSlot
       IN  IF d.ok
           THEN /\ refPc' = "store"
                /\ Commit([arcs EXCEPT ![s] = d.set], regPtr, localPtr, s, held)
                /\ refDisc' = d.set
                /\ refreshing' = refreshing + 1
                /\ UNCHANGED lastRefresh
           ELSE /\ lastRefresh' = "err"
                /\ refPc' = "ended"
                /\ UNCHANGED << refDisc, refreshing, arcs, regPtr, localPtr, refRes, held >>
    /\ UNCHANGED << kind, selector, pubCount >>
    /\ UNCHANGED << heldSnap, seen >>
    /\ UNCHANGED selVars
    /\ UNCHANGED proxyVars
    /\ UNCHANGED addrSet

\* Backends::refresh up to the `?`: DnsDiscovery::discover builds a new Arc, or
\* fails, and then refresh returns the error with nothing stored
refresh_discover_dns(lookup) ==
    /\ kind = "Dns"
    /\ refPc = "idle"
    /\ pubCount < MaxPub
    /\ LET d == DnsDiscover(lookup)
           s == FreeSlot
       IN  IF d.ok
           THEN /\ refPc' = "store"
                /\ Commit([arcs EXCEPT ![s] = d.set], regPtr, localPtr, s, held)
                /\ refDisc' = d.set
                /\ refreshing' = refreshing + 1
                /\ UNCHANGED lastRefresh
           ELSE /\ lastRefresh' = "err"
                /\ UNCHANGED << refPc, refDisc, refreshing, arcs, regPtr, localPtr,
                                refRes, held >>
    /\ UNCHANGED << kind, selector, pubCount >>
    /\ UNCHANGED << heldSnap, seen >>
    /\ UNCHANGED selVars
    /\ UNCHANGED proxyVars
    /\ UNCHANGED addrSet

\* Backends::refresh after the `?`: self.backends.store(new_backends)
refresh_store ==
    /\ refPc = "store"
    /\ Commit(arcs, refRes, localPtr, 0, held)
    /\ refPc' = "idle"
    /\ pubCount' = pubCount + 1
    /\ lastRefresh' = "ok"
    /\ refDisc' = {}
    /\ refreshing' = refreshing - 1
    /\ UNCHANGED << kind, selector >>
    /\ UNCHANGED << heldSnap, seen >>
    /\ UNCHANGED selVars
    /\ UNCHANGED proxyVars
    /\ UNCHANGED addrSet

\* get_backends answering from a publication that may have been replaced since
get_backends_stale(r) ==
    /\ held[r] = 0
    /\ Commit(arcs, regPtr, localPtr, refRes, [held EXCEPT ![r] = regPtr])
    /\ heldSnap' = [heldSnap EXCEPT ![r] = arcs[regPtr]]
    /\ \E n \in 0..pubCount : seen' = [seen EXCEPT ![r] = n]
    /\ UNCHANGED << kind, selector, refPc, refDisc, refreshing, lastRefresh, pubCount >>
    /\ UNCHANGED selVars
    /\ UNCHANGED proxyVars
    /\ UNCHANGED addrSet

\* Backends::get_backends as LoadBalancer::select calls it: load_full
get_backends(r) ==
    /\ held[r] = 0
    /\ Commit(arcs, regPtr, localPtr, refRes, [held EXCEPT ![r] = regPtr])
    /\ heldSnap' = [heldSnap EXCEPT ![r] = arcs[regPtr]]
    /\ seen' = [seen EXCEPT ![r] = pubCount]
    /\ UNCHANGED << kind, selector, refPc, refDisc, refreshing, lastRefresh, pubCount >>
    /\ UNCHANGED selVars
    /\ UNCHANGED proxyVars
    /\ UNCHANGED addrSet

\* a caller of get_backends drops the Arc it was given
drop_handle(r) ==
    /\ held[r] # 0
    /\ Commit(arcs, regPtr, localPtr, refRes, [held EXCEPT ![r] = 0])
    /\ heldSnap' = [heldSnap EXCEPT ![r] = {}]
    /\ UNCHANGED << kind, selector, refPc, refDisc, refreshing, lastRefresh, pubCount, seen >>
    /\ UNCHANGED selVars
    /\ UNCHANGED proxyVars
    /\ UNCHANGED addrSet

\* ------------------------------------------------------------- selectors
\* what one select call yields: the Option<Backend> (or a panic) and the selector state
Outcome(res, panicked, idx, cnt, cs) ==
    [res |-> res, panicked |-> panicked, index |-> idx, counter |-> cnt, conns |-> cs]

\* Vec::sort_by_key(|(_, count)| *count): a stable sort
RECURSIVE SortByCount(_)
SortByCount(v) ==
    IF v = << >> THEN << >>
    ELSE LET i == CHOOSE i \in 1..Len(v) :
                      /\ \A j \in 1..Len(v) : v[i].count <= v[j].count
                      /\ \A j \in 1..(i - 1) : v[j].count > v[i].count
         IN  << v[i] >> \o SortByCount(SubSeq(v, 1, i - 1) \o SubSeq(v, i + 1, Len(v)))

\* LoadBalancer::select, Selector::Random: choose over the snapshot
LbRandom(snap, idx, cnt, cs) == {Outcome({b}, FALSE, idx, cnt, cs) : b \in snap}

\* LoadBalancer::select, Selector::RoundRobin: *index = (*index + 1) % len; nth(*index)
LbRoundRobin(snap, idx, cnt, cs) ==
    LET c == (cnt + 1) % Cardinality(snap)
    IN  {Outcome(Nth(snap, c), FALSE, idx, c, cs)}

\* LoadBalancer::select, Selector::LeastConnection: sort the vector, return its first
LbLeastConnection(snap, idx, cnt, cs) ==
    LET sorted == SortByCount(cs)
    IN  {Outcome(IF sorted = << >> THEN {} ELSE {sorted[1].backend}, FALSE, idx, cnt, sorted)}

\* LoadBalancer::select, Selector::ConsistentHashing: None without a key; with one,
\* min_by_key over the snapshot of DefaultHasher values, which are not modelled:
\* the minimum is some element of the snapshot
LbConsistentHashing(snap, key, idx, cnt, cs) ==
    IF key = {} THEN {Outcome({}, FALSE, idx, cnt, cs)}
    ELSE {Outcome({b}, FALSE, idx, cnt, cs) : b \in snap}

\* LoadBalancer::select: None on an empty snapshot, then the match on the selector
LoadBalancerSelect(sel, snap, key, idx, cnt, cs) ==
    IF snap = {} THEN {Outcome({}, FALSE, idx, cnt, cs)}
    ELSE CASE sel = "lb.Random" -> LbRandom(snap, idx, cnt, cs)
           [] sel = "lb.RoundRobin" -> LbRoundRobin(snap, idx, cnt, cs)
           [] sel = "lb.LeastConnection" -> LbLeastConnection(snap, idx, cnt, cs)
           [] sel = "lb.ConsistentHashing" -> LbConsistentHashing(snap, key, idx, cnt, cs)

\* AtomicUsize::fetch_add(1): wrapping
FetchAdd(idx) == (idx + 1) % UsizeModulus

\* RoundRobinSelect with the index read and not advanced
RoundRobinSelectNoAdvance(snap, idx, cnt, cs) ==
    LET len == Cardinality(snap)
    IN  IF len = 0 THEN {Outcome({}, FALSE, idx, cnt, cs)}
        ELSE {Outcome(Nth(snap, idx % len), FALSE, idx, cnt, cs)}

\* selection::RoundRobin::select
RoundRobinSelect(snap, idx, cnt, cs) ==
    LET len == Cardinality(snap)
    IN  IF len = 0 THEN {Outcome({}, FALSE, idx, cnt, cs)}
        ELSE {Outcome(Nth(snap, idx % len), FALSE, FetchAdd(idx), cnt, cs)}

\* backends.iter().map(|b| b.weight).sum()
RECURSIVE TotalWeight(_)
TotalWeight(S) ==
    IF S = {} THEN 0
    ELSE LET b == CHOOSE x \in S : TRUE IN b.weight + TotalWeight(S \ {b})

\* WeightScan with the cursor compared by <= instead of <
RECURSIVE WeightScanInclusive(_, _)
WeightScanInclusive(seq, i) ==
    IF seq = << >> THEN {}
    ELSE IF i <= Head(seq).weight THEN {Head(seq)}
    ELSE WeightScanInclusive(Tail(seq), i - Head(seq).weight)

\* the scan of selection::WeightedRoundRobin::select over backends.iter()
RECURSIVE WeightScan(_, _)
WeightScan(seq, i) ==
    IF seq = << >> THEN {}
    ELSE IF i < Head(seq).weight THEN {Head(seq)}
    ELSE WeightScan(Tail(seq), i - Head(seq).weight)

\* selection::WeightedRoundRobin::select
WeightedRoundRobinSelect(snap, idx, cnt, cs) ==
    LET total == TotalWeight(snap)
    IN  IF total = 0 THEN {Outcome({}, FALSE, idx, cnt, cs)}
        ELSE {Outcome(WeightScan(Iter(snap), idx % total), FALSE, FetchAdd(idx), cnt, cs)}

\* Iterator::min_by_key, key a function on the elements: the first of the minimal ones
MinByKeyFirst(seq, key) ==
    IF seq = << >> THEN {}
    ELSE LET i == CHOOSE i \in 1..Len(seq) :
                      /\ \A j \in 1..Len(seq) : key[seq[i]] <= key[seq[j]]
                      /\ \A j \in 1..(i - 1) : key[seq[j]] > key[seq[i]]
         IN  {seq[i]}

\* connections.get(&addr).unwrap_or(&0)
CountOf(cmap, a) == IF a \in DOMAIN cmap THEN cmap[a] ELSE 0

\* LeastConnectionsSelect breaking ties towards the end of the snapshot
LeastConnectionsSelectLast(snap, cmap, idx, cnt, cs) ==
    LET count == [b \in snap |-> CountOf(cmap, b.addr)]
        seq == Iter(snap)
    IN  IF seq = << >> THEN {Outcome({}, FALSE, idx, cnt, cs)}
        ELSE LET i == CHOOSE i \in 1..Len(seq) :
                          /\ \A j \in 1..Len(seq) : count[seq[i]] <= count[seq[j]]
                          /\ \A j \in (i + 1)..Len(seq) : count[seq[j]] > count[seq[i]]
             IN  {Outcome({seq[i]}, FALSE, idx, cnt, cs)}

\* selection::LeastConnections::select; a missing address counts 0
LeastConnectionsSelect(snap, cmap, idx, cnt, cs) ==
    LET count == [b \in snap |-> CountOf(cmap, b.addr)]
    IN  {Outcome(MinByKeyFirst(Iter(snap), count), FALSE, idx, cnt, cs)}

\* BTreeMap::entry(addr).or_insert(0) += 1 on a clone of the map
Incremented(cmap, a) ==
    [x \in DOMAIN cmap \cup {a} |-> IF x = a THEN CountOf(cmap, a) + 1 ELSE cmap[x]]

\* if let Some(count) = get_mut(addr) { if *count > 0 { *count -= 1 } } on a clone
Decremented(cmap, a) ==
    [x \in DOMAIN cmap |-> IF x = a /\ cmap[x] > 0 THEN cmap[x] - 1 ELSE cmap[x]]

\* selection::LeastConnections::increment: rcu
increment(a) ==
    /\ selector = "LeastConnections"
    /\ CountOf(connections, a) < MaxCount
    /\ connections' = Incremented(connections, a)
    /\ UNCHANGED << kind, arcs, regPtr, localPtr, refPc, refRes, refDisc, refreshing >>
    /\ UNCHANGED << lastRefresh, pubCount, held, heldSnap, seen >>
    /\ UNCHANGED << selector, index, counter, conns, rcu, rr, trace, fresh >>
    /\ UNCHANGED proxyVars
    /\ UNCHANGED addrSet

\* selection::LeastConnections::decrement: rcu
decrement(a) ==
    /\ selector = "LeastConnections"
    /\ connections' = Decremented(connections, a)
    /\ UNCHANGED << kind, arcs, regPtr, localPtr, refPc, refRes, refDisc, refreshing >>
    /\ UNCHANGED << lastRefresh, pubCount, held, heldSnap, seen >>
    /\ UNCHANGED << selector, index, counter, conns, rcu, rr, trace, fresh >>
    /\ UNCHANGED proxyVars
    /\ UNCHANGED addrSet

\* a step of a concurrent call of select
RrStep ==
    /\ UNCHANGED << kind, arcs, regPtr, localPtr, refPc, refRes, refDisc, refreshing >>
    /\ UNCHANGED << lastRefresh, pubCount, held, heldSnap, seen >>
    /\ UNCHANGED << selector, conns, connections, rcu, trace, fresh >>
    /\ UNCHANGED proxyVars
    /\ UNCHANGED addrSet

\* the calls of select that have got a value from the counter
RrCalls == Len(rr.done) + Cardinality({t \in Tasks : rr.task[t].pc = "fetched"})

\* rr_fetch_add as a load and a store: a call finding another one between its
\* fetch and its return gets the value of that one
rr_fetch_add_torn(t) ==
    /\ selector = "RoundRobin"
    /\ rr.task[t].pc = "idle"
    /\ RrCalls < MaxCalls
    /\ LET v == IF \E u \in Tasks : rr.task[u].pc = "fetched"
                THEN rr.task[CHOOSE u \in Tasks : rr.task[u].pc = "fetched"].val
                ELSE index
       IN  /\ index' = FetchAdd(v)
           /\ rr' = [rr EXCEPT !.task[t] = [pc |-> "fetched", val |-> v]]
    /\ UNCHANGED counter
    /\ RrStep

\* selection::RoundRobin::select on a non-empty snapshot: self.index.fetch_add(1)
rr_fetch_add(t) ==
    /\ selector = "RoundRobin"
    /\ rr.task[t].pc = "idle"
    /\ RrCalls < MaxCalls
    /\ arcs[regPtr] # {}
    /\ \E out \in RoundRobinSelect(arcs[regPtr], index, counter, conns) :
          index' = out.index
    /\ rr' = [rr EXCEPT !.task[t] = [pc |-> "fetched", val |-> index]]
    /\ UNCHANGED counter
    /\ RrStep

\* selection::RoundRobin::select: backends.iter().nth(index % len).cloned()
rr_nth(t) ==
    /\ rr.task[t].pc = "fetched"
    /\ \E out \in RoundRobinSelect(arcs[regPtr], rr.task[t].val, counter, conns) :
          rr' = [rr EXCEPT !.task[t] = [pc |-> "idle", val |-> 0],
                           !.done = Append(@, [val |-> rr.task[t].val, res |-> out.res])]
    /\ UNCHANGED << index, counter >>
    /\ RrStep

\* LoadBalancer::select, Selector::RoundRobin: the counter is advanced and the
\* backend taken while the lock of the Mutex is held
lb_round_robin(t) ==
    /\ selector = "lb.RoundRobin"
    /\ rr.task[t].pc = "idle"
    /\ RrCalls < MaxCalls
    /\ arcs[regPtr] # {}
    /\ \E out \in LbRoundRobin(arcs[regPtr], index, counter, conns) :
          /\ counter' = out.counter
          /\ rr' = [rr EXCEPT !.done = Append(@, [val |-> out.counter, res |-> out.res])]
    /\ UNCHANGED index
    /\ RrStep

\* the closure of increment or decrement applied to the map cmap
Applied(op, cmap, a) == IF op = "inc" THEN Incremented(cmap, a) ELSE Decremented(cmap, a)

RcuStep ==
    /\ UNCHANGED << kind, arcs, regPtr, localPtr, refPc, refRes, refDisc, refreshing >>
    /\ UNCHANGED << lastRefresh, pubCount, held, heldSnap, seen >>
    /\ UNCHANGED << selector, index, counter, conns, rr, trace, fresh >>
    /\ UNCHANGED proxyVars
    /\ UNCHANGED addrSet

\* increment / decrement, rcu: the current map is loaded for the closure
rcu_load(t, op, a) ==
    /\ selector = "LeastConnections"
    /\ rcu.task[t].pc = "idle"
    /\ rcu.ver < MaxRcu
    /\ rcu' = [rcu EXCEPT !.task[t] = [pc |-> "loaded", op |-> op, addr |-> a,
                                        ver |-> rcu.ver, cur |-> connections]]
    /\ UNCHANGED connections
    /\ RcuStep

\* rcu_swap storing the result of the closure without comparing
rcu_swap_blind(t) ==
    /\ rcu.task[t].pc = "loaded"
    /\ LET call == rcu.task[t]
           hit == call.op = "inc" \/ CountOf(connections, call.addr) > 0
       IN  /\ connections' = Applied(call.op, call.cur, call.addr)
           /\ rcu' = [rcu EXCEPT !.ver = @ + 1,
                                  !.net[call.addr] = IF ~hit THEN @
                                                     ELSE IF call.op = "inc" THEN @ + 1
                                                     ELSE @ - 1,
                                  !.task[t] = IdleTask]
    /\ RcuStep

\* rcu: the compare-and-swap finds the Arc it loaded and stores the new map
rcu_swap(t) ==
    /\ rcu.task[t].pc = "loaded"
    /\ rcu.task[t].ver = rcu.ver
    /\ LET call == rcu.task[t]
           hit == call.op = "inc" \/ CountOf(connections, call.addr) > 0
       IN  /\ connections' = Applied(call.op, call.cur, call.addr)
           /\ rcu' = [rcu EXCEPT !.ver = @ + 1,
                                  !.net[call.addr] = IF ~hit THEN @
                                                     ELSE IF call.op = "inc" THEN @ + 1
                                                     ELSE @ - 1,
                                  !.task[t] = IdleTask]
    /\ RcuStep

\* rcu: the compare-and-swap finds another Arc; the closure runs again on that one
rcu_retry(t) ==
    /\ rcu.task[t].pc = "loaded"
    /\ rcu.task[t].ver # rcu.ver
    /\ rcu' = [rcu EXCEPT !.task[t].ver = rcu.ver, !.task[t].cur = connections]
    /\ UNCHANGED connections
    /\ RcuStep

\* selection::Random::select
RandomSelect(snap, idx, cnt, cs) ==
    IF snap = {} THEN {Outcome({}, FALSE, idx, cnt, cs)}
    ELSE {Outcome(Nth(snap, i), FALSE, idx, cnt, cs) : i \in 0..(Cardinality(snap) - 1)}

\* selection::ConsistentHashing::select: todo!() panics
ConsistentHashingSelect(snap, idx, cnt, cs) == {Outcome({}, TRUE, idx, cnt, cs)}

\* the outcomes of one select call of the balancer's selector on a snapshot
SelectOutcomes(sel, snap, key, cmap, idx, cnt, cs) ==
    CASE sel \in LbSelectors -> LoadBalancerSelect(sel, snap, key, idx, cnt, cs)
      [] sel = "RoundRobin" -> RoundRobinSelect(snap, idx, cnt, cs)
      [] sel = "WeightedRoundRobin" -> WeightedRoundRobinSelect(snap, idx, cnt, cs)
      [] sel = "LeastConnections" -> LeastConnectionsSelect(snap, cmap, idx, cnt, cs)
      [] sel = "Random" -> RandomSelect(snap, idx, cnt, cs)
      [] sel = "ConsistentHashing" -> ConsistentHashingSelect(snap, idx, cnt, cs)

\* the selectors that rotate over the snapshot; consecutive selections are kept for
\* them, and only the latest selection for the others
Rotating == {"lb.RoundRobin", "RoundRobin", "WeightedRoundRobin"}

\* entry was selected on the snapshot the selections of trace were made on
Continues(entry) == selector \in Rotating /\ trace[Len(trace)].snap = entry.snap

\* the rest of a select call, on the handle get_backends returned; the handle is
\* dropped when the call returns
select(r) ==
    /\ held[r] # 0
    /\ \E key \in KeyOpts :
       \E out \in SelectOutcomes(selector, arcs[held[r]], key, connections,
                                 index, counter, conns) :
          LET entry == [snap |-> arcs[held[r]], res |-> out.res, panicked |-> out.panicked]
          IN  /\ index' = out.index
              /\ counter' = out.counter
              /\ conns' = out.conns
              /\ trace' = IF trace = << >> \/ Continues(entry)
                          THEN Append(trace, entry)
                          ELSE << entry >>
              /\ fresh' = (fresh /\ (trace = << >> \/ Continues(entry)))
    /\ Commit(arcs, regPtr, localPtr, refRes, [held EXCEPT ![r] = 0])
    /\ heldSnap' = [heldSnap EXCEPT ![r] = {}]
    /\ UNCHANGED << kind, selector, refPc, refDisc, refreshing, lastRefresh, pubCount >>
    /\ UNCHANGED << seen, connections, rcu, rr >>
    /\ UNCHANGED proxyVars
    /\ UNCHANGED addrSet

\* ------------------------------------------------------------- listener
registryVars == << kind, arcs, regPtr, localPtr, addrSet, refPc, refRes, refDisc,
                   refreshing, lastRefresh, pubCount, held, heldSnap, seen >>

\* the task of connection c ends with Err(e)
Fails(c, e) ==
    /\ pc' = [pc EXCEPT ![c] = "failed"]
    /\ failure' = [failure EXCEPT ![c] = e]

\* run_service, stream.next() = Some(Ok(socket)): the service is cloned and its call
\* spawned; connections arrive in the order of their numbers
accept(c) ==
    /\ listener = "accepting"
    /\ pc[c] = "pending"
    /\ \A k \in Conns : k < c => pc[k] # "pending"
    /\ pc' = [pc EXCEPT ![c] = "terminate"]
    /\ UNCHANGED << sni, serverTls, tls, selected, upstream, failure, nSelect, nDial >>
    /\ UNCHANGED << registryVars, selector, selVars, listenVars, copyVars >>

\* accept_error ending the accept loop
accept_error_fatal(c) ==
    /\ listener = "accepting"
    /\ pc[c] = "pending"
    /\ \A k \in Conns : k < c => pc[k] # "pending"
    /\ Fails(c, "Accept")
    /\ listener' = "stopped"
    /\ UNCHANGED << sni, serverTls, tls, selected, upstream, nSelect, nDial >>
    /\ UNCHANGED << registryVars, selector, selVars >>
    /\ UNCHANGED << protocol, others, sender, signalled >>
    /\ UNCHANGED << superVars, copyVars >>

\* run_service, stream.next() = Some(Err(e)): logged, the loop goes on
accept_error(c) ==
    /\ listener = "accepting"
    /\ pc[c] = "pending"
    /\ \A k \in Conns : k < c => pc[k] # "pending"
    /\ Fails(c, "Accept")
    /\ UNCHANGED << sni, serverTls, tls, selected, upstream, nSelect, nDial >>
    /\ UNCHANGED << registryVars, selector, selVars, listenVars, copyVars >>

\* watch::Receiver::changed() completes: with Ok once a value was sent, with Err once
\* the sender is dropped; the branches of both select! bind it to _
Changed == signalled \/ sender = "dropped"

\* the shutdown channel changes: the sender sends
shutdown_signal ==
    /\ ~signalled
    /\ sender = "live"
    /\ signalled' = TRUE
    /\ UNCHANGED << registryVars, selector, selVars >>
    /\ UNCHANGED << protocol, others, sender, listener, superVars >>
    /\ UNCHANGED << connVars, copyVars >>

\* run_service_break taken only when no connection is waiting to be accepted
run_service_break_idle ==
    /\ listener = "accepting"
    /\ Changed
    /\ \A c \in Conns : pc[c] # "pending"
    /\ listener' = "stopped"
    /\ UNCHANGED << registryVars, selector, selVars >>
    /\ UNCHANGED << protocol, others, sender, signalled, superVars >>
    /\ UNCHANGED << connVars, copyVars >>

\* run_service_break aborting the connection tasks the listener has spawned
run_service_break_abort ==
    /\ listener = "accepting"
    /\ Changed
    /\ listener' = "stopped"
    /\ pc' = [c \in Conns |-> IF pc[c] \in {"pending", "ok", "failed"}
                                THEN pc[c] ELSE "failed"]
    /\ failure' = [c \in Conns |-> IF pc'[c] = pc[c] THEN failure[c] ELSE "Aborted"]
    /\ UNCHANGED << sni, serverTls, tls, selected, upstream, nSelect, nDial >>
    /\ UNCHANGED << registryVars, selector, selVars >>
    /\ UNCHANGED << protocol, others, sender, signalled, superVars >>
    /\ UNCHANGED copyVars

\* run_service, shutdown_rx.changed(): break
run_service_break ==
    /\ listener = "accepting"
    /\ Changed
    /\ listener' = "stopped"
    /\ UNCHANGED << registryVars, selector, selVars >>
    /\ UNCHANGED << protocol, others, sender, signalled, superVars >>
    /\ UNCHANGED << connVars, copyVars >>

\* ------------------------------------------------------------- supervisor
\* main up to run_server: UmayConfig::load()? and build_runtime(..)?
main_load(ok) ==
    /\ main = "load"
    /\ main' = IF ok THEN "init" ELSE "exit_err"
    /\ UNCHANGED << registryVars, selector, selVars >>
    /\ UNCHANGED << protocol, others, sender, listener, signalled >>
    /\ UNCHANGED << run, completions, connVars, copyVars >>

\* run_server: UmayServer::try_from returns Ok, and run is awaited with the receiver
\* of signal::shutdown(); or returns Err, which is logged before Ok(()); or reaches a
\* todo!()
main_init(res) ==
    /\ main = "init"
    /\ CASE res = "ok" -> main' = "serving" /\ run' = "start"
         [] res = "err" -> main' = "exit_ok" /\ UNCHANGED run
         [] res = "panic" -> main' = "panicked" /\ UNCHANGED run
    /\ UNCHANGED << registryVars, selector, selVars >>
    /\ UNCHANGED << protocol, others, sender, listener, signalled >>
    /\ UNCHANGED << completions, connVars, copyVars >>

\* run, the for loop: the future of start_refresh_task is built and dropped without
\* being awaited or spawned, run_service is spawned
run_start ==
    /\ run = "start"
    /\ run' = "waiting"
    /\ refPc' = "dropped"
    /\ listener' = "spawned"
    /\ others' = [o \in DOMAIN others |-> "spawned"]
    /\ UNCHANGED << kind, arcs, regPtr, localPtr, refRes, refDisc, refreshing >>
    /\ UNCHANGED << lastRefresh, pubCount, held, heldSnap, seen >>
    /\ UNCHANGED << selector, selVars, protocol, sender, signalled, main, completions >>
    /\ UNCHANGED << connVars, copyVars >>
    /\ UNCHANGED addrSet

\* the sender of the shutdown channel is dropped
shutdown_sender_drop ==
    /\ sender = "live"
    /\ sender' = "dropped"
    /\ UNCHANGED << registryVars, selector, selVars >>
    /\ UNCHANGED << protocol, others, listener, signalled, superVars >>
    /\ UNCHANGED << connVars, copyVars >>

\* a step of the run_service task of another stream proxy
OthersStep(o, to) ==
    /\ others' = [others EXCEPT ![o] = to]
    /\ UNCHANGED << registryVars, selector, selVars >>
    /\ UNCHANGED << protocol, sender, listener, signalled, superVars >>
    /\ UNCHANGED << connVars, copyVars >>

\* others_bind_listener with the Err of a bind ending the run that spawned the task
others_bind_listener_fatal(o, ok) ==
    /\ others[o] = "spawned"
    /\ others' = [others EXCEPT ![o] = IF ok THEN "accepting" ELSE "failed"]
    /\ run' = IF ok THEN run ELSE "returned"
    /\ UNCHANGED << registryVars, selector, selVars >>
    /\ UNCHANGED << protocol, sender, listener, signalled, main, completions >>
    /\ UNCHANGED << connVars, copyVars >>

\* run_service of another stream proxy, bind_listener(port).await?
others_bind_listener(o, ok) ==
    /\ others[o] = "spawned"
    /\ OthersStep(o, IF ok THEN "accepting" ELSE "failed")

\* run_service of another stream proxy, shutdown_rx.changed(): break
others_break(o) ==
    /\ others[o] = "accepting"
    /\ Changed
    /\ OthersStep(o, "stopped")

\* run_service, bind_listener(port).await?: an Err ends the task, which logs it
bind_listener(ok) ==
    /\ listener = "spawned"
    /\ listener' = IF ok THEN "accepting" ELSE "failed"
    /\ UNCHANGED << registryVars, selector, selVars >>
    /\ UNCHANGED << protocol, others, sender, signalled, superVars >>
    /\ UNCHANGED << connVars, copyVars >>

\* run_changed without a change of the channel
run_changed_unsignalled ==
    /\ run = "waiting"
    /\ run' = "grace"
    /\ UNCHANGED << registryVars, selector, selVars >>
    /\ UNCHANGED << protocol, others, sender, listener, signalled >>
    /\ UNCHANGED << main, completions, connVars, copyVars >>

\* run_changed taking its branch only on the Ok of changed()
run_changed_ok_only ==
    /\ run = "waiting"
    /\ signalled
    /\ run' = "grace"
    /\ UNCHANGED << registryVars, selector, selVars >>
    /\ UNCHANGED << protocol, others, sender, listener, signalled >>
    /\ UNCHANGED << main, completions, connVars, copyVars >>

\* run, shutdown_rx.changed(): shutdown() starts with the sleep of the grace period
run_changed ==
    /\ run = "waiting"
    /\ Changed
    /\ run' = "grace"
    /\ UNCHANGED << registryVars, selector, selVars >>
    /\ UNCHANGED << protocol, others, sender, listener, signalled >>
    /\ UNCHANGED << main, completions, connVars, copyVars >>

\* shutdown: the grace period has elapsed, the sleep of the exit timeout starts
shutdown_grace_period ==
    /\ run = "grace"
    /\ run' = "exit_timeout"
    /\ UNCHANGED << registryVars, selector, selVars >>
    /\ UNCHANGED << protocol, others, sender, listener, signalled >>
    /\ UNCHANGED << main, completions, connVars, copyVars >>

\* shutdown: the exit timeout has elapsed; run returns Ok(())
shutdown_exit_timeout ==
    /\ run = "exit_timeout"
    /\ run' = "returned"
    /\ UNCHANGED << registryVars, selector, selVars >>
    /\ UNCHANGED << protocol, others, sender, listener, signalled >>
    /\ UNCHANGED << main, completions, connVars, copyVars >>

\* run_server after umay.run(..).await: the result is logged, Ok(()) ends the process
main_exit ==
    /\ main = "serving"
    /\ run = "returned"
    /\ main' = "exit_ok"
    /\ UNCHANGED << registryVars, selector, selVars >>
    /\ UNCHANGED << protocol, others, sender, listener, signalled >>
    /\ UNCHANGED << run, completions, connVars, copyVars >>

\* ------------------------------------------------------------- tls::Server
\* self.rx.borrow(): the channel of the Server is the one it was built over, or the
\* one spawn_with_alpn made
ServerRx == IF tls.alpn THEN tls.rx ELSE Cfg(tls.orig, FALSE)

\* a step of the configuration channels
TlsStep(new) ==
    /\ tls' = new
    /\ UNCHANGED << pc, sni, serverTls, selected, upstream, failure, nSelect, nDial >>
    /\ UNCHANGED << registryVars, selector, selVars, listenVars, copyVars >>

\* config_send reaching the handshakes in progress as well
config_send_inflight ==
    /\ tls.orig < MaxCfg
    /\ tls.tx = "live"
    /\ TlsStep([tls EXCEPT !.orig = @ + 1,
                           !.used = [c \in Conns |->
                                        IF pc[c] = "terminate" /\ ~tls.alpn
                                        THEN {Cfg(tls.orig + 1, FALSE)} ELSE @[c]]])

\* the owner of the credentials sends a new configuration on the channel
config_send ==
    /\ tls.orig < MaxCfg
    /\ tls.tx = "live"
    /\ TlsStep([tls EXCEPT !.orig = @ + 1])

\* the owner of the credentials drops the sender
config_sender_drop ==
    /\ tls.tx = "live"
    /\ TlsStep([tls EXCEPT !.tx = "dropped"])

\* spawn_with_alpn, the spawned loop: orig_rx.changed() returns Ok
relay_changed ==
    /\ tls.relay = "select"
    /\ tls.seen # tls.orig
    /\ TlsStep([tls EXCEPT !.seen = tls.orig, !.relay = "send"])

\* spawn_with_alpn, the spawned loop: orig_rx.borrow() with the protocols set is sent
relay_send ==
    /\ tls.relay = "send"
    /\ TlsStep([tls EXCEPT !.rx = Cfg(tls.orig, TRUE), !.relay = "select"])

\* spawn_with_alpn, the spawned loop: orig_rx.changed() returns Err, the task returns
relay_return ==
    /\ tls.relay = "select"
    /\ tls.seen = tls.orig
    /\ tls.tx = "dropped"
    /\ TlsStep([tls EXCEPT !.relay = "ended"])

\* Server::call: the acceptor is built from the configuration the channel holds,
\* and its accept future returned
Server_call(c) ==
    /\ pc[c] = "pending"
    /\ \A k \in Conns : k < c => pc[k] # "pending"
    /\ pc' = [pc EXCEPT ![c] = "terminate"]
    /\ tls' = [tls EXCEPT !.used[c] = {ServerRx}]
    /\ UNCHANGED << sni, serverTls, selected, upstream, failure, nSelect, nDial >>
    /\ UNCHANGED << registryVars, selector, selVars, listenVars, copyVars >>

\* TerminateFuture::poll once the accept future is ready: its error, or Established
TerminateFuture_poll(c, ok) ==
    /\ pc[c] = "terminate"
    /\ IF ok
       THEN /\ pc' = [pc EXCEPT ![c] = "ok"]
            /\ serverTls' = [serverTls EXCEPT ![c] = "Established"]
            /\ UNCHANGED failure
       ELSE /\ Fails(c, "Tls")
            /\ UNCHANGED serverTls
    /\ UNCHANGED << sni, tls, selected, upstream, nSelect, nDial >>
    /\ UNCHANGED << registryVars, selector, selVars, listenVars, copyVars >>

\* ------------------------------------------------------------- handle_connection
\* the server name of a ClientHello: none, the terminator's own name, another name
Names == {"none", "own", "other"}

\* tls::server::TerminateFuture::poll after the handshake: Passthru if the session
\* has a server name, Established otherwise
ServerTlsOf(name) == IF name # "none" THEN "Passthru" ELSE "Established"

\* terminate with the backend selected before the handshake is awaited
terminate_selected(c, name, ok) ==
    /\ pc[c] = "terminate"
    /\ IF ok
       THEN /\ pc' = [pc EXCEPT ![c] = "select"]
            /\ sni' = [sni EXCEPT ![c] = name]
            /\ serverTls' = [serverTls EXCEPT ![c] = ServerTlsOf(name)]
            /\ UNCHANGED failure
       ELSE /\ Fails(c, "Tls")
            /\ UNCHANGED << sni, serverTls >>
    /\ nSelect' = [nSelect EXCEPT ![c] = @ + 1]
    /\ UNCHANGED << tls, selected, upstream, nDial >>
    /\ UNCHANGED << registryVars, selector, selVars, listenVars, copyVars >>

\* handle_connection: self.tls_server.terminate(client_io).await?
terminate(c, name, ok) ==
    /\ pc[c] = "terminate"
    /\ IF ok
       THEN /\ pc' = [pc EXCEPT ![c] = "select"]
            /\ sni' = [sni EXCEPT ![c] = name]
            /\ serverTls' = [serverTls EXCEPT ![c] = ServerTlsOf(name)]
            /\ UNCHANGED failure
       ELSE /\ Fails(c, "Tls")
            /\ UNCHANGED << sni, serverTls >>
    /\ UNCHANGED << tls, selected, upstream, nSelect, nDial >>
    /\ UNCHANGED << registryVars, selector, selVars, listenVars, copyVars >>

\* the arms of handle_connection on the Option select returned; none is what the
\* None arm does
OnSelected(c, out, none) ==
    IF out.panicked THEN Fails(c, "Panic")
    ELSE IF out.res = {} THEN none
    ELSE CASE protocol = "Tcp" -> pc' = [pc EXCEPT ![c] = "dial"] /\ UNCHANGED failure
           [] protocol = "Ws" -> pc' = [pc EXCEPT ![c] = "ws_accept"] /\ UNCHANGED failure
           [] OTHER -> Fails(c, "Unsupported")

\* the call of select by handle_connection, on the published snapshot with key None;
\* server_tls was consumed by the match before it
SelectCall(c, out) ==
    /\ pc[c] = "select"
    /\ index' = out.index
    /\ counter' = out.counter
    /\ conns' = out.conns
    /\ nSelect' = [nSelect EXCEPT ![c] = @ + 1]
    /\ selected' = [selected EXCEPT ![c] = out.res]
    /\ sni' = [sni EXCEPT ![c] = "unset"]
    /\ serverTls' = [serverTls EXCEPT ![c] = "unset"]
    /\ UNCHANGED << tls, upstream, nDial >>
    /\ UNCHANGED << registryVars, selector, connections, rcu, rr, trace, fresh >>
    /\ UNCHANGED << listenVars, copyVars >>

\* hc_select with a None that ends the task with Ok(())
hc_select_none_ok(c) ==
    \E out \in SelectOutcomes(selector, arcs[regPtr], {}, connections,
                              index, counter, conns) :
        /\ SelectCall(c, out)
        /\ OnSelected(c, out, pc' = [pc EXCEPT ![c] = "ok"] /\ UNCHANGED failure)

\* hc_select with the server name of a Passthru outcome as the key
hc_select_by_outcome(c) ==
    \E out \in SelectOutcomes(selector, arcs[regPtr],
                              IF serverTls[c] = "Passthru" THEN {1} ELSE {},
                              connections, index, counter, conns) :
        /\ SelectCall(c, out)
        /\ OnSelected(c, out, Fails(c, "NoBackends"))

\* handle_connection: match self.load_balancer.select(None).await
hc_select(c) ==
    \E out \in SelectOutcomes(selector, arcs[regPtr], {}, connections,
                              index, counter, conns) :
        /\ SelectCall(c, out)
        /\ OnSelected(c, out, Fails(c, "NoBackends"))

\* handle_connection, Protocol::Ws: accept_async(tls_stream).await?
hc_ws_accept(c, ok) ==
    /\ pc[c] = "ws_accept"
    /\ IF ok THEN pc' = [pc EXCEPT ![c] = "dial"] /\ UNCHANGED failure
       ELSE Fails(c, "WsHandshake")
    /\ UNCHANGED << sni, serverTls, tls, selected, upstream, nSelect, nDial >>
    /\ UNCHANGED << registryVars, selector, selVars, listenVars, copyVars >>

\* the connect of handle_connection to the selected backend; failed is what a
\* failed connect leads to
Dial(c, ok, failed) ==
    /\ pc[c] = "dial"
    /\ nDial' = [nDial EXCEPT ![c] = @ + 1]
    /\ IF ok
       THEN /\ upstream' = [upstream EXCEPT ![c] = (CHOOSE b \in selected[c] : TRUE).addr]
            /\ pc' = [pc EXCEPT ![c] = IF protocol = "Tcp" THEN "copy" ELSE "ws"]
            /\ half' = [half EXCEPT ![c] = [d \in Dirs |-> "running"]]
            /\ UNCHANGED failure
       ELSE /\ failed
            /\ UNCHANGED << upstream, half >>
    /\ UNCHANGED << sni, serverTls, tls, selected, nSelect >>
    /\ UNCHANGED << wrote, closed, nread, buf, delivered >>
    /\ UNCHANGED << registryVars, selector, selVars, listenVars >>

\* hc_dial selecting again after a failed connect
hc_dial_retry(c, ok) ==
    Dial(c, ok, pc' = [pc EXCEPT ![c] = "select"] /\ UNCHANGED failure)

\* handle_connection: TcpStream::connect(backend.addr).await? / connect_async(..).await?
hc_dial(c, ok) == Dial(c, ok, Fails(c, "Dial"))

\* ------------------------------------------------------------- proxy_tcp
Other(d) == IF d = "c2s" THEN "s2c" ELSE "c2s"

\* the peers of connection c leave the proxy's variables alone
PeerStep ==
    /\ UNCHANGED << nread, buf, delivered, half >>
    /\ UNCHANGED << registryVars, selector, selVars, listenVars, connVars >>

\* the source peer of direction d (the client for c2s, the upstream for s2c) writes
\* a byte to its socket
peer_write(c, d, x) ==
    /\ pc[c] \in {"copy", "ws", "forward"}
    /\ ~closed[c][d]
    /\ Len(wrote[c][d]) < MaxLen
    /\ wrote' = [wrote EXCEPT ![c][d] = Append(@, x)]
    /\ UNCHANGED closed
    /\ PeerStep

\* the source peer of direction d shuts down its writing side: end of stream
peer_close(c, d) ==
    /\ pc[c] \in {"copy", "ws", "forward"}
    /\ ~closed[c][d]
    /\ closed' = [closed EXCEPT ![c][d] = TRUE]
    /\ UNCHANGED wrote
    /\ PeerStep

\* a step of a copy future that proxy_tcp goes on polling
CopyStep ==
    /\ UNCHANGED << wrote, closed, half >>
    /\ UNCHANGED << registryVars, selector, selVars, listenVars, connVars >>

\* copy_read taking the bytes without advancing in the source
copy_read_again(c, d, n) ==
    /\ pc[c] \in {"copy", "forward"}
    /\ half[c][d] = "running"
    /\ n \in 1..(Len(wrote[c][d]) - nread[c][d])
    /\ Len(buf[c][d]) + Len(delivered[c][d]) < MaxLen
    /\ buf' = [buf EXCEPT ![c][d] = @ \o SubSeq(wrote[c][d], nread[c][d] + 1, nread[c][d] + n)]
    /\ UNCHANGED << nread, delivered >>
    /\ CopyStep

\* tokio::io::copy of direction d reads n bytes from its reader
copy_read(c, d, n) ==
    /\ pc[c] \in {"copy", "forward"}
    /\ half[c][d] = "running"
    /\ n \in 1..(Len(wrote[c][d]) - nread[c][d])
    /\ buf' = [buf EXCEPT ![c][d] = @ \o SubSeq(wrote[c][d], nread[c][d] + 1, nread[c][d] + n)]
    /\ nread' = [nread EXCEPT ![c][d] = @ + n]
    /\ UNCHANGED delivered
    /\ CopyStep

\* tokio::io::copy of direction d writes n of the bytes it has read to its writer
copy_write(c, d, n) ==
    /\ pc[c] \in {"copy", "forward"}
    /\ half[c][d] = "running"
    /\ n \in 1..Len(buf[c][d])
    /\ delivered' = [delivered EXCEPT ![c][d] = @ \o SubSeq(buf[c][d], 1, n)]
    /\ buf' = [buf EXCEPT ![c][d] = SubSeq(@, n + 1, Len(@))]
    /\ UNCHANGED nread
    /\ CopyStep

\* the select! of proxy_tcp: the copy of direction d has completed with result how,
\* the other copy is dropped unfinished, proxy_tcp returns Ok(()) and with it
\* handle_connection; both streams are dropped
Completes(c, d, how) ==
    /\ half' = [half EXCEPT ![c] = [e \in Dirs |-> IF e = d THEN how ELSE "dropped"]]
    /\ pc' = [pc EXCEPT ![c] = "ok"]
    /\ upstream' = [upstream EXCEPT ![c] = 0]
    /\ UNCHANGED << sni, serverTls, tls, selected, failure, nSelect, nDial >>
    /\ UNCHANGED << wrote, closed, nread, buf, delivered >>
    /\ UNCHANGED << registryVars, selector, selVars, listenVars >>

\* copy_eof ending only its own direction, the other copy still polled
copy_eof_half_close(c, d) ==
    /\ pc[c] = "copy"
    /\ half[c][d] = "running"
    /\ closed[c][d]
    /\ nread[c][d] = Len(wrote[c][d])
    /\ buf[c][d] = << >>
    /\ half' = [half EXCEPT ![c][d] = "eof"]
    /\ UNCHANGED << wrote, closed, nread, buf, delivered >>
    /\ UNCHANGED << registryVars, selector, selVars, listenVars, connVars >>

\* tokio::io::copy of direction d reads end of stream with everything written: Ok(n)
copy_eof(c, d) ==
    /\ pc[c] = "copy"
    /\ closed[c][d]
    /\ nread[c][d] = Len(wrote[c][d])
    /\ buf[c][d] = << >>
    /\ Completes(c, d, "eof")

\* tokio::io::copy of direction d gets an I/O error from its reader or writer: Err(e),
\* which proxy_tcp logs
copy_error(c, d) ==
    /\ pc[c] = "copy"
    /\ Completes(c, d, "error")

\* ------------------------------------------------------------- forward
\* the plain forwarder of src/main.rs; half[c][d] is where the async block of
\* direction d is: "running" its copy, "shutdown" awaiting the shutdown of its
\* writer, "done" after it

\* try_join!: an Err of either block is returned at once, the other block is dropped
ForwardFails(c, d) ==
    /\ half' = [half EXCEPT ![c] = [e \in Dirs |->
                    IF e = d THEN "error" ELSE IF @[e] = "done" THEN "done" ELSE "dropped"]]
    /\ Fails(c, "Io")
    /\ upstream' = [upstream EXCEPT ![c] = 0]
    /\ UNCHANGED << sni, serverTls, tls, selected, nSelect, nDial >>
    /\ UNCHANGED << wrote, closed, nread, buf, delivered >>
    /\ UNCHANGED << registryVars, selector, selVars, listenVars >>

\* forward_eof returning from forward the way the select! of proxy_tcp does
forward_eof_select(c, d) ==
    /\ pc[c] = "forward"
    /\ half[c][d] = "running"
    /\ closed[c][d]
    /\ nread[c][d] = Len(wrote[c][d])
    /\ buf[c][d] = << >>
    /\ Completes(c, d, "done")

\* the copy of direction d reads end of stream with everything written: Ok(n), and
\* the block goes on to the shutdown of its writer
forward_eof(c, d) ==
    /\ pc[c] = "forward"
    /\ half[c][d] = "running"
    /\ closed[c][d]
    /\ nread[c][d] = Len(wrote[c][d])
    /\ buf[c][d] = << >>
    /\ half' = [half EXCEPT ![c][d] = "shutdown"]
    /\ UNCHANGED << wrote, closed, nread, buf, delivered >>
    /\ UNCHANGED << registryVars, selector, selVars, listenVars, connVars >>

\* the copy of direction d gets an I/O error: the ? returns it from the block
forward_copy_error(c, d) ==
    /\ pc[c] = "forward"
    /\ half[c][d] = "running"
    /\ ForwardFails(c, d)

\* wo.shutdown() / wi.shutdown() of direction d returns; with the second block done
\* try_join! returns and forward returns Ok(())
forward_shutdown(c, d, ok) ==
    /\ pc[c] = "forward"
    /\ half[c][d] = "shutdown"
    /\ IF ~ok THEN ForwardFails(c, d)
       ELSE /\ half' = [half EXCEPT ![c][d] = "done"]
            /\ IF half[c][Other(d)] = "done"
               THEN /\ pc' = [pc EXCEPT ![c] = "ok"]
                    /\ upstream' = [upstream EXCEPT ![c] = 0]
               ELSE UNCHANGED << pc, upstream >>
            /\ UNCHANGED << sni, serverTls, tls, selected, failure, nSelect, nDial >>
            /\ UNCHANGED << wrote, closed, nread, buf, delivered >>
            /\ UNCHANGED << registryVars, selector, selVars, listenVars >>

\* ------------------------------------------------------------- proxy_ws
\* wrote, closed, nread and delivered count frames; half[c][d] is "ended" once the
\* stream read in direction d has returned None
WsStep ==
    /\ UNCHANGED << sni, serverTls, tls, selected, nSelect, nDial >>
    /\ UNCHANGED << wrote, closed, buf >>
    /\ UNCHANGED << registryVars, selector, selVars, listenVars >>

WsFails(c) == Fails(c, "Ws") /\ upstream' = [upstream EXCEPT ![c] = 0]

\* a branch of the select!, next() = Some(Ok(message)): the message is sent to the
\* other peer, and a failed send returns the error
ws_forward(c, d, ok) ==
    /\ pc[c] = "ws"
    /\ half[c][d] = "running"
    /\ nread[c][d] < Len(wrote[c][d])
    /\ nread' = [nread EXCEPT ![c][d] = @ + 1]
    /\ IF ok
       THEN /\ delivered' = [delivered EXCEPT ![c][d] = Append(@, wrote[c][d][nread[c][d] + 1])]
            /\ UNCHANGED << pc, failure, upstream >>
       ELSE /\ WsFails(c)
            /\ UNCHANGED delivered
    /\ UNCHANGED half
    /\ WsStep

\* a branch of the select!, next() = Some(Err(e)): `?` returns the error
ws_error(c, d) ==
    /\ pc[c] = "ws"
    /\ half[c][d] = "running"
    /\ WsFails(c)
    /\ UNCHANGED << nread, delivered, half >>
    /\ WsStep

\* a branch of the select!, next() = None: the pattern fails and the branch is
\* disabled; the loop waits on for the other stream, and when that has ended too
\* the select! has no branch left and panics
ws_end(c, d) ==
    /\ pc[c] = "ws"
    /\ half[c][d] = "running"
    /\ closed[c][d]
    /\ nread[c][d] = Len(wrote[c][d])
    /\ half' = [half EXCEPT ![c][d] = "ended"]
    /\ IF half[c][Other(d)] = "ended"
       THEN Fails(c, "Panic") /\ upstream' = [upstream EXCEPT ![c] = 0]
       ELSE UNCHANGED << pc, failure, upstream >>
    /\ UNCHANGED << nread, delivered >>
    /\ WsStep

\* ------------------------------------------------------------- specification
\* LoadBalancer::start_refresh_task: one refresh after the other
refresh_task ==
    \/ refresh_discover_local
    \/ \E lookup \in DnsLookups : refresh_discover_dns(lookup)
    \/ refresh_store

\* the callers of LocalDiscovery's mutators
local_discovery ==
    \/ \E a \in Addrs : add_backend(a)
    \/ \E a \in Addrs : remove_backend(a)
    \/ \E A \in SUBSET Addrs : set_backends(VecOf(A))
    \/ clear_backends

\* the connections calling LoadBalancer::select
callers(max) ==
    \/ \E r \in Readers : Len(trace) < max /\ index < max /\ get_backends(r)
    \/ \E r \in Readers : select(r)

\* the callers of Backends::get_backends
readers ==
    \/ \E r \in Readers : get_backends(r)
    \/ \E r \in Readers : drop_handle(r)

\* the registry, its discovery source and its readers
Next == refresh_task \/ local_discovery \/ readers

Spec == Init /\ [][Next]_vars

\* the load balancer over the registry
NextBalance == refresh_task \/ local_discovery \/ callers(MaxSelects)

SpecBalance == InitBalance /\ [][NextBalance]_vars

\* the load balancer over a snapshot that stays as published
NextSelect == callers(MaxRun)

SpecSelect == InitSelect /\ [][NextSelect]_vars

\* the least-connections selector over a snapshot that stays as published, and the
\* callers of its increment and decrement
InitLeast ==
    /\ kind = "Given"
    /\ regPtr = 1
    /\ localPtr = 0
    /\ addrSet = {}
    /\ \E A \in SUBSET Addrs : arcs = [s \in Slots |-> IF s = 1 THEN Weight1(A) ELSE {}]
    /\ refPc = "idle"
    /\ refRes = 0
    /\ refDisc = {}
    /\ refreshing = 0
    /\ lastRefresh = "ok"
    /\ pubCount = 1
    /\ InitReaders
    /\ selector = "LeastConnections"
    /\ index = 0
    /\ counter = 0
    /\ conns = << >>
    /\ connections = NoCounts
    /\ rcu = NoRcu
    /\ rr = NoRr
    /\ trace = << >>
    /\ fresh = TRUE
    /\ InitNoProxy

NextLeast ==
    \/ \E a \in Addrs : increment(a)
    \/ \E a \in Addrs : decrement(a)
    \/ callers(MaxRun)

SpecLeast == InitLeast /\ [][NextLeast]_vars

\* a StreamProxy over a snapshot that stays as published, its listener bound
ProxySelectors == LbSelectors \cup {"LeastConnections"}

InitProxy ==
    /\ kind = "Given"
    /\ regPtr = 1
    /\ localPtr = 0
    /\ addrSet = {}
    /\ \E A \in SUBSET Addrs : arcs = [s \in Slots |-> IF s = 1 THEN Weight1(A) ELSE {}]
    /\ refPc = "idle"
    /\ refRes = 0
    /\ refDisc = {}
    /\ refreshing = 0
    /\ lastRefresh = "ok"
    /\ pubCount = 1
    /\ InitReaders
    /\ selector \in ProxySelectors
    /\ index = 0
    /\ counter = 0
    /\ conns \in (IF selector = "lb.LeastConnection" THEN ConnsInits ELSE {<< >>})
    /\ connections = NoCounts
    /\ rcu = NoRcu
    /\ rr = NoRr
    /\ trace = << >>
    /\ fresh = TRUE
    /\ protocol \in {"Tcp", "Ws", "Udp"}
    /\ others = << >>
    /\ sender = "live"
    /\ listener = "accepting"
    /\ signalled = FALSE
    /\ InitConns
    /\ InitCopies

\* the arrivals of the connections C at the listener
accepts(C) ==
    \/ \E c \in C : accept(c)
    \/ \E c \in C : accept_error(c)

shutdown ==
    \/ shutdown_signal
    \/ run_service_break

handle_connection ==
    \/ \E c \in Conns, name \in Names, ok \in BOOLEAN : terminate(c, name, ok)
    \/ \E c \in Conns : hc_select(c)
    \/ \E c \in Conns, ok \in BOOLEAN : hc_dial(c, ok)

\* the steps of handle_connection that only Protocol::Ws takes
websocket ==
    \/ \E c \in Conns, ok \in BOOLEAN : hc_ws_accept(c, ok)
    \/ \E c \in Conns, d \in Dirs : ws_error(c, d)
    \/ \E c \in Conns, d \in Dirs : ws_end(c, d)

\* proxy_tcp as far as it ends: the peers close, a copy completes
proxy_tcp_end ==
    \/ \E c \in Conns, d \in Dirs : peer_close(c, d)
    \/ \E c \in Conns, d \in Dirs : copy_eof(c, d)
    \/ \E c \in Conns, d \in Dirs : copy_error(c, d)

\* the first connection, from its arrival to the end of its task
NextConn == accepts({1}) \/ handle_connection \/ websocket \/ proxy_tcp_end

InitConn == InitProxy /\ InitNoServer

SpecConn == InitConn /\ [][NextConn]_vars

\* the two connections whose outcomes are compared
Pair == {1, 2}

\* two connections of one stream proxy, of any protocol and selector, from their
\* accept to their connect to the selected backend
NextOutcome ==
    \/ accepts(Pair)
    \/ \E c \in Pair, name \in Names, ok \in BOOLEAN : terminate(c, name, ok)
    \/ \E c \in Pair : hc_select(c)
    \/ \E c \in Pair, ok \in BOOLEAN : hc_ws_accept(c, ok)
    \/ \E c \in Pair, ok \in BOOLEAN : hc_dial(c, ok)

SpecOutcome == InitConn /\ [][NextOutcome]_vars

\* a raw-TCP listener balancing by least connections, all its connections and its
\* shutdown
InitListen ==
    InitProxy /\ InitNoServer /\ protocol = "Tcp" /\ selector = "LeastConnections"

NextListen == accepts(Conns) \/ shutdown \/ handle_connection \/ proxy_tcp_end

SpecListen == InitListen /\ [][NextListen]_vars

\* one connection over the protocol proto whose task has connected to its backend
\* and is at the step at
InitProxied(proto, at) ==
    /\ kind = "Given"
    /\ regPtr = 1
    /\ localPtr = 0
    /\ addrSet = {}
    /\ arcs = [s \in Slots |-> IF s = 1 THEN {B1} ELSE {}]
    /\ refPc = "idle"
    /\ refRes = 0
    /\ refDisc = {}
    /\ refreshing = 0
    /\ lastRefresh = "ok"
    /\ pubCount = 1
    /\ InitReaders
    /\ selector = "lb.Random"
    /\ index = 0
    /\ counter = 0
    /\ conns = << >>
    /\ connections = NoCounts
    /\ rcu = NoRcu
    /\ rr = NoRr
    /\ trace = << >>
    /\ fresh = TRUE
    /\ protocol = proto
    /\ others = << >>
    /\ sender = "live"
    /\ listener = "accepting"
    /\ signalled = FALSE
    /\ InitNoServer
    /\ pc = [c \in Conns |-> IF c = 1 THEN at ELSE "pending"]
    /\ sni = [c \in Conns |-> "unset"]
    /\ serverTls = [c \in Conns |-> "unset"]
    /\ tls = NoTls
    /\ selected = [c \in Conns |-> IF c = 1 THEN {B1} ELSE {}]
    /\ upstream = [c \in Conns |-> IF c = 1 THEN 1 ELSE 0]
    /\ failure = [c \in Conns |-> ""]
    /\ nSelect = [c \in Conns |-> IF c = 1 THEN 1 ELSE 0]
    /\ nDial = [c \in Conns |-> IF c = 1 THEN 1 ELSE 0]
    /\ wrote = [c \in Conns |-> [d \in Dirs |-> << >>]]
    /\ closed = [c \in Conns |-> [d \in Dirs |-> FALSE]]
    /\ nread = [c \in Conns |-> [d \in Dirs |-> 0]]
    /\ buf = [c \in Conns |-> [d \in Dirs |-> << >>]]
    /\ delivered = [c \in Conns |-> [d \in Dirs |-> << >>]]
    /\ half = [c \in Conns |-> [d \in Dirs |-> IF c = 1 THEN "running" ELSE "unset"]]

\* one raw-TCP connection from the call of proxy_tcp on
InitCopy == InitProxied("Tcp", "copy")

proxy_tcp ==
    \/ \E c \in Conns, d \in Dirs, x \in Bytes : peer_write(c, d, x)
    \/ \E c \in Conns, d \in Dirs : peer_close(c, d)
    \/ \E c \in Conns, d \in Dirs, n \in 1..MaxLen : copy_read(c, d, n)
    \/ \E c \in Conns, d \in Dirs, n \in 1..MaxLen : copy_write(c, d, n)
    \/ \E c \in Conns, d \in Dirs : copy_eof(c, d)
    \/ \E c \in Conns, d \in Dirs : copy_error(c, d)

NextCopy == proxy_tcp

SpecCopy == InitCopy /\ [][NextCopy]_vars

\* one connection of the plain forwarder after its TcpStream::connect
InitForward == InitProxied("Tcp", "forward")

NextForward ==
    \/ \E c \in Conns, d \in Dirs, x \in Bytes : peer_write(c, d, x)
    \/ \E c \in Conns, d \in Dirs : peer_close(c, d)
    \/ \E c \in Conns, d \in Dirs, n \in 1..MaxLen : copy_read(c, d, n)
    \/ \E c \in Conns, d \in Dirs, n \in 1..MaxLen : copy_write(c, d, n)
    \/ \E c \in Conns, d \in Dirs : forward_eof(c, d)
    \/ \E c \in Conns, d \in Dirs : forward_copy_error(c, d)
    \/ \E c \in Conns, d \in Dirs, ok \in BOOLEAN : forward_shutdown(c, d, ok)

SpecForward == InitForward /\ [][NextForward]_vars

\* one WebSocket connection from the call of proxy_ws on
InitWs == InitProxied("Ws", "ws")

NextWs ==
    \/ \E c \in Conns, d \in Dirs, x \in Bytes : peer_write(c, d, x)
    \/ \E c \in Conns, d \in Dirs : peer_close(c, d)
    \/ \E c \in Conns, d \in Dirs, ok \in BOOLEAN : ws_forward(c, d, ok)
    \/ \E c \in Conns, d \in Dirs : ws_error(c, d)
    \/ \E c \in Conns, d \in Dirs : ws_end(c, d)

SpecWs == InitWs /\ [][NextWs]_vars

\* concurrent calls of increment and decrement on one LeastConnections
NextRcu ==
    \/ \E t \in Tasks, op \in {"inc", "dec"}, a \in Addrs : rcu_load(t, op, a)
    \/ \E t \in Tasks : rcu_swap(t)
    \/ \E t \in Tasks : rcu_retry(t)

InitRcu == InitLeast /\ arcs[regPtr] = Weight1(Addrs)

SpecRcu == InitRcu /\ [][NextRcu]_vars

\* a RoundRobin selector whose index has run up to within MaxRun of the integer
\* width, over a snapshot that stays as published
InitWrap ==
    /\ kind = "Given"
    /\ regPtr = 1
    /\ localPtr = 0
    /\ addrSet = {}
    /\ \E k \in 1..MaxWrapAddrs :
          arcs = [s \in Slots |-> IF s = 1 THEN Weight1(1..k) ELSE {}]
    /\ refPc = "idle"
    /\ refRes = 0
    /\ refDisc = {}
    /\ refreshing = 0
    /\ lastRefresh = "ok"
    /\ pubCount = 1
    /\ InitReaders
    /\ selector = "RoundRobin"
    /\ index \in (UsizeModulus - MaxRun)..(UsizeModulus - 1)
    /\ counter = 0
    /\ conns = << >>
    /\ connections = NoCounts
    /\ rcu = NoRcu
    /\ rr = NoRr
    /\ trace = << >>
    /\ fresh = FALSE
    /\ InitNoProxy

NextWrap ==
    \/ \E r \in Readers : Len(trace) < MaxRun /\ get_backends(r)
    \/ \E r \in Readers : select(r)

SpecWrap == InitWrap /\ [][NextWrap]_vars

\* a registry over LocalDiscovery::with_backends(v), any vector v
InitLocal ==
    /\ kind = "Local"
    /\ regPtr = 1
    /\ localPtr = 2
    /\ \E v \in Vecs :
          /\ addrSet = Elems(v)
          /\ arcs = [s \in Slots |-> IF s = 2 THEN Collect(v) ELSE {}]
    /\ refPc = "idle"
    /\ refRes = 0
    /\ refDisc = {}
    /\ refreshing = 0
    /\ lastRefresh = "none"
    /\ pubCount = 0
    /\ InitReaders
    /\ InitNoSelector
    /\ InitNoProxy

\* the calls on LocalDiscovery, one after the other; discover is called by refresh
NextLocal ==
    \/ \E a \in Addrs : add_backend(a)
    \/ \E a \in Addrs : remove_backend(a)
    \/ \E v \in Vecs : set_backends(v)
    \/ clear_backends
    \/ refresh_discover_local
    \/ refresh_store

SpecLocal == InitLocal /\ [][NextLocal]_vars

\* ------------------------------------------------------------- registry claims
\* the step of refresh() that stores the discovered snapshot
StoreStep == refPc = "store" /\ refPc' = "idle"

\* C1: every snapshot a reader obtains from the registry is non-empty
C1_SnapshotNonEmpty == \A r \in Readers : held[r] # 0 => arcs[held[r]] # {}

\* C2: a refresh that succeeds publishes exactly the discovered set; nothing else,
\* and in particular no refresh that returns an error, changes what is published
C2_RefreshPublishesOrKeeps ==
    [][/\ StoreStep => arcs'[regPtr'] = refDisc
       /\ ~StoreStep => arcs'[regPtr'] = arcs[regPtr]]_vars

\* a non-empty snapshot was published and a later refresh returned an error
C2_Witness == lastRefresh = "err" /\ pubCount >= 1 /\ arcs[regPtr] # {}

\* C3: a refresh whose discovery produced the empty set leaves the published
\* snapshot as it was before the refresh
C3_EmptyDiscoveryKeepsSnapshot ==
    [][StoreStep /\ refDisc = {} => arcs'[regPtr'] = arcs[regPtr]]_vars

\* C4: the publication index a reader observes never decreases
C4_ReaderIndexMonotone == [][\A r \in Readers : seen'[r] >= seen[r]]_vars

\* a reader holds the second publication
C4_Witness == \E r \in Readers : held[r] # 0 /\ seen[r] = 2 /\ held[r] = regPtr

\* C5: the contents of a handle do not change while a reader holds it
C5_HeldSnapshotImmutable == \A r \in Readers : held[r] # 0 => arcs[held[r]] = heldSnap[r]

\* a reader holds a snapshot that the registry has replaced since and whose
\* LocalDiscovery has been mutated since
C5_Witness ==
    \E r \in Readers :
        /\ kind = "Local"
        /\ held[r] # 0
        /\ held[r] # regPtr
        /\ held[r] # localPtr
        /\ arcs[localPtr] # heldSnap[r]
        /\ arcs[regPtr] # heldSnap[r]

\* ------------------------------------------------------------- selector claims

\* the selections i .. i+n-1 of trace
Window(i, n) == i..(i + n - 1)

\* C6: a backend returned by select is a member of the snapshot the call read
C6_SelectedFromSnapshot == \A i \in 1..Len(trace) : trace[i].res \subseteq trace[i].snap

\* C7: k consecutive round-robin selections on a snapshot of size k return every
\* backend of the snapshot, so each exactly once
C7_RoundRobinPermutation ==
    selector \in {"RoundRobin", "lb.RoundRobin"} =>
        \A i \in 1..Len(trace) :
            LET k == Cardinality(trace[i].snap)
            IN  k > 0 /\ i + k - 1 <= Len(trace) =>
                    UNION {trace[j].res : j \in Window(i, k)} = trace[i].snap

\* selection::RoundRobin has gone twice round a snapshot of two or more backends
C7_Witness ==
    /\ selector = "RoundRobin"
    /\ trace # << >>
    /\ Cardinality(trace[1].snap) >= 2
    /\ Len(trace) >= 2 * Cardinality(trace[1].snap)

\* C8: a fresh round-robin balancer over {B1, B2} selects B1, B2, B1, B2
C8_FreshRoundRobinOrder ==
    (/\ selector \in {"RoundRobin", "lb.RoundRobin"}
     /\ fresh
     /\ Len(trace) >= 4
     /\ trace[1].snap = {B1, B2})
    => << trace[1].res, trace[2].res, trace[3].res, trace[4].res >>
           = << {B1}, {B2}, {B1}, {B2} >>

C10_EmptySnapshotYieldsNone ==
    \A i \in 1..Len(trace) :
        trace[i].snap = {} => trace[i].res = {} /\ ~trace[i].panicked

\* a select call of reader r returns in this step
SelectReturns(r) == held[r] # 0 /\ held'[r] = 0

\* C11: LeastConnections.select returns a backend of the snapshot whose count (0
\* for an address the map does not hold) is minimal, and of those with the minimal
\* count the first in the order of the snapshot
C11_LeastConnectionsFirstMinimal ==
    [][\A r \in Readers :
        (selector = "LeastConnections" /\ SelectReturns(r) /\ arcs[held[r]] # {}) =>
            \E b \in arcs[held[r]] :
                /\ trace'[Len(trace')].res = {b}
                /\ \A x \in arcs[held[r]] :
                      /\ CountOf(connections, b.addr) <= CountOf(connections, x.addr)
                      /\ CountOf(connections, x.addr) = CountOf(connections, b.addr)
                            => ~BackendLt(x, b)]_vars

\* the second backend was selected: the first has a connection counted and the
\* second is not in the map
C11_Witness ==
    /\ selector = "LeastConnections"
    /\ trace # << >>
    /\ trace[Len(trace)].snap = {B1, B2}
    /\ trace[Len(trace)].res = {B2}
    /\ DOMAIN connections = {1}
    /\ connections[1] > 0

\* ------------------------------------------------------------- proxy claims
\* the connections that hold an open stream to the backend at address a
LiveTo(a) == {c \in Conns : upstream[c] = a}

\* C12: with the LeastConnections selector the count of every address equals the
\* number of live proxied connections to it
C12_CountEqualsLiveConnections ==
    selector = "LeastConnections" =>
        \A a \in Addrs : CountOf(connections, a) = Cardinality(LiveTo(a))

\* C13: after a successful handshake terminate yields Passthru only for a client that
\* presented a server name other than the terminator's own; the own name, or no
\* name, yields Established
C13_PassthruOnlyForeignName ==
    \A c \in Conns :
        pc[c] = "select" =>
            /\ serverTls[c] = "Passthru" => sni[c] = "other"
            /\ sni[c] \in {"own", "none"} => serverTls[c] = "Established"

\* C14: a connection whose select returned None fails with the no-backends error
\* and no upstream connection is ever opened for it
C14_NoneFailsWithoutDial ==
    \A c \in Conns :
        (nSelect[c] > 0 /\ selected[c] = {} /\ failure[c] # "Panic") =>
            /\ pc[c] = "failed"
            /\ failure[c] = "NoBackends"
            /\ nDial[c] = 0
            /\ upstream[c] = 0

\* a connection failed for want of a backend although the snapshot has backends
C14_Witness ==
    \E c \in Conns :
        /\ failure[c] = "NoBackends"
        /\ nSelect[c] = 1
        /\ arcs[regPtr] = {B1, B2}

\* C15: every connection makes at most one select and at most one upstream dial,
\* and a dial that fails ends the connection with the dial error
C15_OneSelectOneDial ==
    [][\A c \in Conns :
        /\ nSelect'[c] <= 1
        /\ nDial'[c] <= 1
        /\ (nDial'[c] > nDial[c] /\ upstream'[c] = 0) =>
              pc'[c] = "failed" /\ failure'[c] = "Dial"]_vars

\* a dial failed while the snapshot held a second backend, and the connection ended
C15_Witness ==
    \E c \in Conns :
        /\ pc[c] = "failed"
        /\ failure[c] = "Dial"
        /\ nSelect[c] = 1
        /\ nDial[c] = 1
        /\ arcs[regPtr] = {B1, B2}

\* ------------------------------------------------------------- copy claims
IsPrefix(s, t) == Len(s) <= Len(t) /\ s = SubSeq(t, 1, Len(s))

\* the copy of direction d of connection c completes in this step
CopyCompletes(c, d) == half[c][d] = "running" /\ half'[c][d] \in {"eof", "error"}

\* C16: on a raw-TCP connection that met no I/O error, whatever either peer wrote
\* has been received in full by the other when the proxy is done with the
\* connection, whenever the peers end their streams
C16_EveryPayloadDelivered ==
    \A c \in Conns :
        (pc[c] = "ok" /\ \A d \in Dirs : half[c][d] # "error") =>
            \A d \in Dirs : delivered[c][d] = wrote[c][d]

\* C17: in each direction the bytes delivered are a prefix of the bytes written by
\* the source of that direction
C17_DeliveredIsPrefix ==
    \A c \in Conns : \A d \in Dirs : IsPrefix(delivered[c][d], wrote[c][d])

\* both directions have delivered two bytes, in opposite orders
C17_Witness ==
    \E c \in Conns :
        /\ delivered[c]["c2s"] = << 1, 2 >>
        /\ delivered[c]["s2c"] = << 2, 1 >>

\* C18: the step in which either copy completes, by end of stream or by error, stops
\* the other copy, releases both streams and returns from proxy_tcp; nothing is
\* transferred after it
C18_FirstCompletionTearsDown ==
    [][\A c \in Conns :
        /\ \A d \in Dirs :
              CopyCompletes(c, d) =>
                  /\ half'[c][Other(d)] = "dropped"
                  /\ pc'[c] = "ok"
                  /\ upstream'[c] = 0
        /\ pc[c] = "ok" =>
              /\ delivered'[c] = delivered[c]
              /\ nread'[c] = nread[c]
              /\ buf'[c] = buf[c]]_vars

\* the client's end of stream ended the connection while the copy towards the client
\* held a byte it had read and not yet written
C18_Witness ==
    \E c \in Conns :
        /\ pc[c] = "ok"
        /\ upstream[c] = 0
        /\ half[c]["c2s"] = "eof"
        /\ half[c]["s2c"] = "dropped"
        /\ buf[c]["s2c"] # << >>

\* C19: an I/O error in one copy closes that direction only; the copy of the
\* opposite direction goes on
C19_ErrorClosesOnlyItsDirection ==
    [][\A c \in Conns : \A d \in Dirs :
        (half[c][d] = "running" /\ half'[c][d] = "error") =>
            half'[c][Other(d)] = "running"]_vars

\* ------------------------------------------------------------- listener claims
\* C20: the accept loop ends only in a step of its own taken on the shutdown signal;
\* no step of a connection (an accept error, a failed handshake, no backend, a
\* failed dial, a copy error) ends it
C20_OnlyShutdownEndsAcceptLoop ==
    [][listener' # listener =>
          /\ listener = "accepting"
          /\ signalled
          /\ pc' = pc
          /\ failure' = failure
          /\ half' = half]_vars

\* the first connection failed at accept and the second, which arrived after it, is
\* being proxied; no shutdown was signalled
C20_Witness ==
    /\ failure[1] = "Accept"
    /\ pc[2] = "copy"
    /\ upstream[2] # 0
    /\ listener = "accepting"
    /\ ~signalled

\* ------------------------------------------------------------- ProxyServer
\* proxy.rs: a listener with one fixed backend; signalled is its AtomicBool
ProxyServerStep ==
    /\ UNCHANGED << registryVars, selector, selVars >>
    /\ UNCHANGED << protocol, others, sender, run, main >>
    /\ UNCHANGED << sni, serverTls, tls, selected, nSelect, nDial, copyVars >>

\* ProxyServer::shutdown: store(true)
ProxyServer_shutdown ==
    /\ ~signalled
    /\ signalled' = TRUE
    /\ UNCHANGED << listener, completions, pc, failure, upstream >>
    /\ ProxyServerStep

\* run: TcpListener::bind(proxy_addr).await?
ProxyServer_bind(ok) ==
    /\ listener = "unbound"
    /\ listener' = IF ok THEN "accepting" ELSE "failed"
    /\ UNCHANGED << signalled, completions, pc, failure, upstream >>
    /\ ProxyServerStep

\* run leaving the loop: the completion message is sent and Ok(()) returned
ProxyServer_break ==
    /\ listener' = "stopped"
    /\ completions' = completions + 1

\* run, the accept branch: with the flag set the loop is left and the socket
\* dropped; else the connection is spawned, or the error logged
ProxyServer_accept(c, res) ==
    /\ listener = "accepting"
    /\ pc[c] = "pending"
    /\ \A k \in Conns : k < c => pc[k] # "pending"
    /\ IF signalled
       THEN ProxyServer_break /\ Fails(c, "Dropped")
       ELSE /\ UNCHANGED << listener, completions >>
            /\ CASE res = "ok" -> pc' = [pc EXCEPT ![c] = "terminate"] /\ UNCHANGED failure
                 [] res = "acceptor" -> Fails(c, "Tls")
                 [] res = "err" -> Fails(c, "Accept")
    /\ UNCHANGED << signalled, upstream >>
    /\ ProxyServerStep

\* the sleep branch without its check of the flag
ProxyServer_sleep_unchecked ==
    /\ listener = "accepting"
    /\ signalled
    /\ UNCHANGED vars

\* run, the sleep branch, when it finds the flag set; when it does not, the loop
\* starts over with nothing changed
ProxyServer_sleep ==
    /\ listener = "accepting"
    /\ signalled
    /\ ProxyServer_break
    /\ UNCHANGED << signalled, pc, failure, upstream >>
    /\ ProxyServerStep

\* handle_connection: tls_acceptor.accept, then TcpStream::connect; errors are logged
ProxyServer_handle_connection(c, ok) ==
    /\ pc[c] \in {"terminate", "dial"}
    /\ IF ok
       THEN /\ pc' = [pc EXCEPT ![c] = IF pc[c] = "terminate" THEN "dial" ELSE "copy"]
            /\ upstream' = [upstream EXCEPT ![c] = IF pc[c] = "dial" THEN 1 ELSE 0]
            /\ UNCHANGED failure
       ELSE /\ Fails(c, IF pc[c] = "terminate" THEN "Tls" ELSE "Dial")
            /\ UNCHANGED upstream
    /\ UNCHANGED << listener, signalled, completions >>
    /\ ProxyServerStep

\* proxy: copy_bidirectional returns
ProxyServer_proxy(c, ok) ==
    /\ pc[c] = "copy"
    /\ IF ok THEN pc' = [pc EXCEPT ![c] = "ok"] /\ UNCHANGED failure
       ELSE Fails(c, "Proxy")
    /\ upstream' = [upstream EXCEPT ![c] = 0]
    /\ UNCHANGED << listener, signalled, completions >>
    /\ ProxyServerStep

\* ProxyServer::new, run called
InitProxyServer ==
    /\ kind = "none"
    /\ regPtr = 0
    /\ localPtr = 0
    /\ addrSet = {}
    /\ arcs = [s \in Slots |-> {}]
    /\ refPc = "idle"
    /\ refRes = 0
    /\ refDisc = {}
    /\ refreshing = 0
    /\ lastRefresh = "none"
    /\ pubCount = 0
    /\ InitReaders
    /\ InitNoSelector
    /\ protocol = "Tcp"
    /\ others = << >>
    /\ sender = "live"
    /\ listener = "unbound"
    /\ signalled = FALSE
    /\ InitNoServer
    /\ InitConns
    /\ InitCopies

NextProxyServer ==
    \/ ProxyServer_shutdown
    \/ \E ok \in BOOLEAN : ProxyServer_bind(ok)
    \/ \E c \in Conns, res \in {"ok", "acceptor", "err"} : ProxyServer_accept(c, res)
    \/ ProxyServer_sleep
    \/ \E c \in Conns, ok \in BOOLEAN : ProxyServer_handle_connection(c, ok)
    \/ \E c \in Conns, ok \in BOOLEAN : ProxyServer_proxy(c, ok)

SpecProxyServer == InitProxyServer /\ [][NextProxyServer]_vars

\* the runtime polls run, and a sleep of 100 ms that no accept preempts completes
SpecProxyServerFair ==
    /\ SpecProxyServer
    /\ WF_vars(\E ok \in BOOLEAN : ProxyServer_bind(ok))
    /\ WF_vars(ProxyServer_sleep)

\* ------------------------------------------------------------- server
\* UmayServer::run(shutdown_rx) called on a server of one stream proxy, as
\* UmayServer::try_from builds it: the registry is the empty set of Backends::new
InitBuilt ==
    /\ InitRegistry
    /\ kind = "Local"
    /\ InitReaders
    /\ selector = "LeastConnections"
    /\ index = 0
    /\ counter = 0
    /\ conns = << >>
    /\ connections = NoCounts
    /\ rcu = NoRcu
    /\ rr = NoRr
    /\ trace = << >>
    /\ fresh = TRUE
    /\ protocol \in {"Tcp", "Ws"}
    /\ others = << >>
    /\ sender = "live"
    /\ listener = "unbound"
    /\ signalled = FALSE
    /\ completions = 0
    /\ InitConns
    /\ InitCopies

\* run is called on a runtime that outlives it
InitRun == InitBuilt /\ run = "start" /\ main = "unset"

\* the sleeps of shutdown()
sleeps ==
    \/ shutdown_grace_period
    \/ shutdown_exit_timeout

NextRun ==
    \/ run_start
    \/ \E ok \in BOOLEAN : bind_listener(ok)
    \/ accepts({1})
    \/ shutdown
    \/ run_changed
    \/ sleeps
    \/ \E c \in Conns, name \in Names, ok \in BOOLEAN : terminate(c, name, ok)
    \/ \E c \in Conns : hc_select(c)

SpecRun == InitRun /\ [][NextRun]_vars

\* the runtime polls run and the spawned run_service, a select! whose shutdown branch
\* is ready takes it at some iteration, and the timers of the sleeps fire
SpecRunFair ==
    /\ SpecRun
    /\ WF_vars(run_start)
    /\ WF_vars(\E ok \in BOOLEAN : bind_listener(ok))
    /\ WF_vars(run_service_break)
    /\ WF_vars(run_changed)
    /\ WF_vars(sleeps)

\* the process, from main on; when main returns the runtime and its tasks are gone
InitServer == InitBuilt /\ run = "unset" /\ main = "load"

NextServer ==
    \/ \E ok \in BOOLEAN : main_load(ok)
    \/ \E res \in {"ok", "err", "panic"} : main_init(res)
    \/ main = "serving" /\ NextRun
    \/ main_exit

SpecServer == InitServer /\ [][NextServer]_vars

\* a round-robin selector of either kind shared by the tasks of several
\* connections, over a non-empty snapshot that stays as published; the index is as
\* constructed or has run up to the integer width
InitRoundRobin ==
    /\ kind = "Given"
    /\ regPtr = 1
    /\ localPtr = 0
    /\ addrSet = {}
    /\ \E k \in 1..MaxAddrs :
          arcs = [s \in Slots |-> IF s = 1 THEN Weight1(1..k) ELSE {}]
    /\ refPc = "idle"
    /\ refRes = 0
    /\ refDisc = {}
    /\ refreshing = 0
    /\ lastRefresh = "ok"
    /\ pubCount = 1
    /\ InitReaders
    /\ selector \in {"RoundRobin", "lb.RoundRobin"}
    /\ index \in (IF selector = "RoundRobin" THEN {0, UsizeModulus - 2} ELSE {0})
    /\ counter = 0
    /\ conns = << >>
    /\ connections = NoCounts
    /\ rcu = NoRcu
    /\ rr = NoRr
    /\ trace = << >>
    /\ fresh = FALSE
    /\ InitNoProxy

NextRoundRobin ==
    \/ \E t \in Tasks : rr_fetch_add(t)
    \/ \E t \in Tasks : rr_nth(t)
    \/ \E t \in Tasks : lb_round_robin(t)

SpecRoundRobin == InitRoundRobin /\ [][NextRoundRobin]_vars

\* a tls::Server on its own, as Server::new or spawn_with_alpn returned it, and the
\* connections handed to its call
InitTls ==
    /\ InitRegistry
    /\ kind = "Local"
    /\ addrSet = {}
    /\ InitReaders
    /\ InitNoSelector
    /\ protocol = "Tcp"
    /\ others = << >>
    /\ sender = "live"
    /\ listener = "unbound"
    /\ signalled = FALSE
    /\ InitNoServer
    /\ pc = [c \in Conns |-> "pending"]
    /\ sni = [c \in Conns |-> "unset"]
    /\ serverTls = [c \in Conns |-> "unset"]
    /\ \E alpn \in BOOLEAN :
          tls = [NoTls EXCEPT !.alpn = alpn, !.rx = Cfg(0, alpn),
                              !.relay = IF alpn THEN "select" ELSE "none"]
    /\ selected = [c \in Conns |-> {}]
    /\ upstream = [c \in Conns |-> 0]
    /\ failure = [c \in Conns |-> ""]
    /\ nSelect = [c \in Conns |-> 0]
    /\ nDial = [c \in Conns |-> 0]
    /\ InitCopies

NextTls ==
    \/ config_send
    \/ config_sender_drop
    \/ relay_changed
    \/ relay_send
    \/ relay_return
    \/ \E c \in Conns : Server_call(c)
    \/ \E c \in Conns, ok \in BOOLEAN : TerminateFuture_poll(c, ok)

SpecTls == InitTls /\ [][NextTls]_vars

\* the stream proxies of the server besides the first
Others == 1..NumOthers

\* run is called on a server of several stream proxies, each with its own port
InitProxies ==
    /\ InitRegistry
    /\ kind = "Local"
    /\ InitReaders
    /\ selector = "LeastConnections"
    /\ index = 0
    /\ counter = 0
    /\ conns = << >>
    /\ connections = NoCounts
    /\ rcu = NoRcu
    /\ rr = NoRr
    /\ trace = << >>
    /\ fresh = TRUE
    /\ protocol \in {"Tcp", "Ws"}
    /\ others = [o \in Others |-> "unbound"]
    /\ sender = "live"
    /\ listener = "unbound"
    /\ signalled = FALSE
    /\ run = "start"
    /\ main = "unset"
    /\ completions = 0
    /\ InitConns
    /\ InitCopies

NextProxies ==
    \/ NextRun
    \/ \E o \in Others, ok \in BOOLEAN : others_bind_listener(o, ok)
    \/ \E o \in Others : others_break(o)

SpecProxies == InitProxies /\ [][NextProxies]_vars

\* run with a shutdown channel whose sender may be dropped at any time
NextDropped == NextProxies \/ shutdown_sender_drop

SpecDropped == InitProxies /\ [][NextDropped]_vars

\* the runtime polls run and the spawned tasks, a select! whose shutdown branch is
\* ready takes it at some iteration, and the timers of the sleeps fire
SpecDroppedFair ==
    /\ SpecDropped
    /\ WF_vars(run_start)
    /\ WF_vars(\E ok \in BOOLEAN : bind_listener(ok))
    /\ WF_vars(run_service_break)
    /\ \A o \in Others : WF_vars(\E ok \in BOOLEAN : others_bind_listener(o, ok))
    /\ \A o \in Others : WF_vars(others_break(o))
    /\ WF_vars(run_changed)
    /\ WF_vars(sleeps)

\* a raw-TCP server whose run waits for the signal, its listener bound, over a
\* registry that has published a snapshot
InitDrain ==
    /\ InitProxy
    /\ protocol = "Tcp"
    /\ selector = "LeastConnections"
    /\ run = "waiting"
    /\ main = "unset"
    /\ completions = 0

NextDrain ==
    \/ accepts({1})
    \/ shutdown
    \/ run_changed
    \/ sleeps
    \/ handle_connection
    \/ proxy_tcp_end

SpecDrain == InitDrain /\ [][NextDrain]_vars

\* ------------------------------------------------------------- shutdown claims
\* run_service spawns the handler of connection c in this step
Spawns(c) == pc[c] = "pending" /\ pc'[c] = "terminate"

\* C21: once the shutdown signal has been sent the listener spawns no handler for a
\* new connection, not even for one that is pending when the loop sees the signal
C21_NoAcceptAfterSignal ==
    [][\A c \in Conns : Spawns(c) => ~signalled]_vars

\* C22: after the shutdown signal is sent the accept loop of the listener ends, be
\* the signal sent before the loop is entered or while it waits on accept
C22_AcceptLoopExits == signalled ~> listener \in {"stopped", "failed"}

\* the signal is sent before run_service has bound its listener
C22_Witness == signalled /\ listener = "spawned"

\* C24: run starts its shutdown only once the signal is sent, then sleeps the grace
\* period, then the exit timeout, then returns Ok; no step of it touches or waits
\* for a connection, and after the signal it does return
C24_RunReturnsAfterSleeps ==
    /\ [][run' # run /\ run # "start" =>
             /\ run = "waiting" => run' = "grace" /\ signalled
             /\ run = "grace" => run' = "exit_timeout"
             /\ run = "exit_timeout" => run' = "returned"
             /\ run # "returned"
             /\ UNCHANGED << connVars, copyVars >>]_vars
    /\ signalled ~> run = "returned"

\* run has returned while the task of a connection is still in its TLS handshake
C24_Witness == run = "returned" /\ pc[1] = "terminate"

\* C23: the steps of the shutdown (the signal, the break of the accept loop, the
\* steps of run) leave every connection task and its streams as they are, and a
\* connection being copied ends only when one of its own copies completes or fails
C23_ShutdownLeavesConnections ==
    [][/\ (signalled' # signalled \/ listener' # listener \/ run' # run) =>
              UNCHANGED << connVars, copyVars >>
       /\ \A c \in Conns : pc[c] = "copy" /\ pc'[c] # "copy" =>
              \E d \in Dirs : half'[c][d] \in {"eof", "error"}]_vars

\* the accept loop has stopped and run has returned; a connection is still copied
C23_Witness ==
    /\ listener = "stopped"
    /\ run = "returned"
    /\ pc[1] = "copy"
    /\ upstream[1] # 0
    /\ half[1] = [d \in Dirs |-> "running"]

\* C25: the process exits with success only after a clean shutdown: run has
\* returned and the listener had been bound; a configuration error, an
\* initialisation error and a bind failure all end in an error outcome
C25_SuccessOnlyOnCleanShutdown ==
    main = "exit_ok" => run = "returned" /\ listener # "failed"

\* C26: once shutdown() has set the flag, the run of a ProxyServer that is in its
\* loop leaves it, whether or not another connection arrives; it has sent one
\* completion message exactly when it has left the loop, and never a second
C26_ProxyServerStops ==
    /\ [](completions = IF listener = "stopped" THEN 1 ELSE 0)
    /\ (signalled /\ listener = "accepting") ~> listener = "stopped"

\* the loop was left with no connection having arrived
C26_Witness == listener = "stopped" /\ completions = 1 /\ pc[1] = "pending"

\* ------------------------------------------------------------- websocket claims
\* C27: the frames forwarded in a direction are, in order, frames its peer sent, and
\* the forwarding loop does not go on once the stream of either peer has ended
C27_WsForwardsUntilClose ==
    \A c \in Conns :
        /\ \A d \in Dirs : IsPrefix(delivered[c][d], wrote[c][d])
        /\ pc[c] = "ws" => \A d \in Dirs : half[c][d] # "ended"

\* ------------------------------------------------------------- refresh task claims
\* C28: once run has started its listeners, the refresh task of the listener's
\* registry is alive: it refreshes or waits for its next tick
C28_RefreshTaskRuns ==
    run \in {"waiting", "grace", "exit_timeout", "returned"} => refPc \in {"idle", "store"}

\* C29: a refresh that failed leaves the refresh task in its loop: the task is at
\* its next tick, or in a later refresh whose discovered set is the one it is about
\* to publish
C29_FailedRefreshKeepsTask ==
    lastRefresh = "err" =>
        /\ refPc \in {"idle", "store"}
        /\ refPc = "store" => refRes # 0 /\ arcs[refRes] = refDisc

\* after a failed refresh a later discovery has succeeded and awaits its store
C29_Witness == lastRefresh = "err" /\ refPc = "store" /\ refDisc # {}

\* C30: at most one refresh() of a registry is in progress at any time
C30_OneRefreshAtATime == refreshing <= 1

\* a refresh is in progress after an earlier one has completed
C30_Witness == refreshing = 1 /\ refPc = "store" /\ pubCount >= 1

\* ------------------------------------------------------------- order claims
\* the steps of handle_connection in their order in the source
Stage(p) ==
    CASE p = "pending" -> 0
      [] p = "terminate" -> 1
      [] p = "select" -> 2
      [] p = "ws_accept" -> 3
      [] p = "dial" -> 4
      [] p \in {"copy", "ws"} -> 5
      [] OTHER -> 6

\* C31: a connection goes through handshake, selection, dial and copy in this
\* order: a selection is made only after the handshake, a dial only after the
\* selection, the copy only after the dial; a connection whose handshake fails has
\* made no selection and no dial and has left the selector's state as it was
C31_StepsInOrder ==
    [][\A c \in Conns :
        /\ pc'[c] # pc[c] => Stage(pc'[c]) > Stage(pc[c])
        /\ nSelect'[c] # nSelect[c] => pc[c] = "select"
        /\ nDial'[c] # nDial[c] => pc[c] = "dial" /\ nSelect[c] = 1
        /\ Stage(pc'[c]) = 5 /\ pc'[c] # pc[c] => pc[c] = "dial" /\ upstream'[c] # 0
        /\ (failure'[c] = "Tls" /\ failure[c] # "Tls") =>
              /\ pc[c] = "terminate"
              /\ nSelect'[c] = 0 /\ nDial'[c] = 0 /\ upstream'[c] = 0
              /\ UNCHANGED << index, counter, conns, connections >>
        /\ failure[c] = "Tls" => pc'[c] = "failed" /\ nSelect'[c] = 0 /\ nDial'[c] = 0]_vars

\* a handshake has failed under a selector whose snapshot has two backends
C31_Witness == failure[1] = "Tls" /\ pc[1] = "failed" /\ arcs[regPtr] = {B1, B2}

\* ------------------------------------------------------------- wrap claims
\* the value fetch_add returned to selection j of trace, on a selector whose every
\* selection is in trace
UsedAt(j) == (index + MaxRun * UsizeModulus - Len(trace) + j - 1) % UsizeModulus

\* C32: k consecutive RoundRobin selections on a snapshot of size k return every
\* backend of the snapshot also when the index wraps at the integer width within them
C32_PermutationAcrossWrap ==
    \A i \in 1..Len(trace) :
        LET k == Cardinality(trace[i].snap)
        IN  (/\ i + k - 1 <= Len(trace)
             /\ \E j \in i..(i + k - 2) : UsedAt(j) = UsizeModulus - 1)
            => UNION {trace[j].res : j \in Window(i, k)} = trace[i].snap

\* ------------------------------------------------------------- count map claims
\* C33: no increment or decrement is lost under concurrency: the count of every
\* address is the number of increments of it that have completed less the number
\* of decrements of it that completed on a positive count
C33_NoLostUpdate == \A a \in Addrs : CountOf(connections, a) = rcu.net[a]

\* two calls overlapped: one had to run its closure again, and both are counted
C33_Witness ==
    /\ rcu.ver >= 2
    /\ \E t \in Tasks : /\ rcu.task[t].pc = "loaded"
                         /\ rcu.task[t].ver = rcu.ver
                         /\ rcu.task[t].cur = connections
                         /\ connections # NoCounts
    /\ \E a \in Addrs : rcu.net[a] = 2

\* C34: LocalDiscovery behaves as a set of addresses: what discover() returns is
\* the set the calls made so far build when applied to a mathematical set (add is
\* a union, remove a difference, set and with_backends the elements of the vector,
\* clear the empty set), every backend at weight 1
C34_LocalDiscoveryIsSet ==
    /\ arcs[localPtr] = Weight1(addrSet)
    /\ refPc = "store" => \A b \in refDisc : b.weight = 1

\* a discover() has returned one set and later calls have built another one
C34_Witness ==
    /\ refPc = "store"
    /\ refDisc # {}
    /\ addrSet # {}
    /\ refDisc # Weight1(addrSet)
    /\ arcs[localPtr] = Weight1(addrSet)

\* C35: a bind failure of one listener ends only the task of that listener: the
\* step leaves the other run_service tasks, the connections and run as they are,
\* and as long as the shutdown channel has not changed run keeps waiting, no other
\* task has left its accept loop, and a listener in its loop accepts the next
\* connection
C35_BindFailureIsLocal ==
    /\ [][\A o \in Others :
            others[o] # "failed" /\ others'[o] = "failed" =>
               /\ listener' = listener
               /\ run' = run
               /\ pc' = pc
               /\ \A p \in Others \ {o} : others'[p] = others[p]]_vars
    /\ [][listener # "failed" /\ listener' = "failed" =>
            others' = others /\ run' = run /\ pc' = pc]_vars
    /\ []((listener = "failed" \/ \E o \in Others : others[o] = "failed") /\ ~Changed =>
            /\ run = "waiting"
            /\ listener # "stopped"
            /\ \A o \in Others : others[o] # "stopped")
    /\ []((\E o \in Others : others[o] = "failed")
             /\ listener = "accepting" /\ pc[1] = "pending" => ENABLED accept(1))

\* the bind of another listener has failed, and the first listener has accepted a
\* connection while run waits for the signal
C35_Witness ==
    /\ others[1] = "failed"
    /\ listener = "accepting"
    /\ pc[1] = "terminate"
    /\ run = "waiting"
    /\ ~Changed

\* C36: the configuration of a handshake is the one the channel of the Server holds
\* at the moment call is invoked, and stays that one: a replacement sent on the
\* channel, or forwarded by the task of spawn_with_alpn, changes the configuration
\* of no handshake that has started
C36_HandshakeKeepsConfig ==
    [][\A c \in Conns :
          tls'.used[c] # tls.used[c] =>
             /\ tls.used[c] = {}
             /\ pc[c] = "pending" /\ pc'[c] = "terminate"
             /\ tls'.used[c] = {ServerRx}]_vars

\* a replacement arrived while the handshake of connection 1 was in progress, and
\* the handshake of connection 2, started after it, uses the new configuration
C36_Witness ==
    /\ pc[1] = "terminate"
    /\ pc[2] = "terminate"
    /\ tls.used[2] = {ServerRx}
    /\ tls.used[1] # tls.used[2]

\* C37: in forward, a direction that has read end of stream and written everything
\* shuts down the writer of the opposite socket while the block of the other
\* direction goes on copying; forward returns Ok only after both blocks are done,
\* each with all bytes delivered, and returns the error in the very step in which a
\* block fails
C37_ForwardJoinsBoth ==
    /\ [][\A c \in Conns, d \in Dirs :
            /\ (half[c][d] = "running" /\ half'[c][d] = "shutdown" =>
                  /\ closed[c][d] /\ delivered[c][d] = wrote[c][d]
                  /\ half'[c][Other(d)] = half[c][Other(d)]
                  /\ pc'[c] = "forward")
            /\ (half[c][d] # "error" /\ half'[c][d] = "error" =>
                  pc'[c] = "failed" /\ failure'[c] = "Io")]_vars
    /\ [](\A c \in Conns, d \in Dirs :
            /\ (half[c][d] = "shutdown" => ENABLED forward_shutdown(c, d, TRUE))
            /\ (pc[c] = "forward" /\ half[c][d] \in {"shutdown", "done"}
                  /\ half[c][Other(d)] = "running"
                  /\ nread[c][Other(d)] < Len(wrote[c][Other(d)])
                  => ENABLED copy_read(c, Other(d), 1))
            /\ (pc[c] = "ok" =>
                  half[c][d] = "done" /\ closed[c][d] /\ delivered[c][d] = wrote[c][d]))

\* the client's direction was shut down first, the upstream's bytes were delivered
\* after it, and forward has returned Ok
C37_Witness ==
    /\ pc[1] = "ok"
    /\ delivered[1]["c2s"] = << >>
    /\ Len(delivered[1]["s2c"]) = MaxLen

\* the counter values the calls of select have got so far
RrValues ==
    {rr.done[i].val : i \in DOMAIN rr.done}
       \cup {rr.task[t].val : t \in {u \in Tasks : rr.task[u].pc = "fetched"}}

\* what the calls that got the counter values of V returned
RrReturned(V) == UNION {rr.done[i].res : i \in {j \in DOMAIN rr.done : rr.done[j].val \in V}}

\* C38: under concurrent calls of select on one RoundRobin selector over a fixed
\* snapshot of k backends, the calls get distinct counter values and none is
\* skipped, and the calls that got k consecutive values v .. v+k-1 have returned
\* each backend of the snapshot, whatever the order of their returns; under the
\* Mutex of LoadBalancer::select every k successive calls have
C38_ConcurrentRoundRobin ==
    LET snap == arcs[regPtr]
        k == Cardinality(snap)
    IN  /\ selector = "RoundRobin" =>
              /\ Cardinality(RrValues) = RrCalls
              /\ RrValues = {(index + UsizeModulus - j) % UsizeModulus : j \in 1..RrCalls}
              /\ \A v \in 0..(UsizeModulus - k) :
                    (\A w \in v..(v + k - 1) : \E i \in DOMAIN rr.done : rr.done[i].val = w)
                       => RrReturned(v..(v + k - 1)) = snap
        /\ selector = "lb.RoundRobin" =>
              \A i \in 1..(Len(rr.done) - k + 1) :
                 UNION {rr.done[j].res : j \in i..(i + k - 1)} = snap

\* two calls were between their fetch and their return at once and returned in the
\* opposite order, on a snapshot of two backends
C38_Witness ==
    /\ selector = "RoundRobin"
    /\ Cardinality(arcs[regPtr]) = 2
    /\ Len(rr.done) >= 2
    /\ rr.done[1].val = rr.done[2].val + 1

\* C39: a shutdown channel whose sender is dropped without having sent acts as a
\* shutdown signal: every accept loop that was entered exits, and run leaves its
\* select! for the two sleeps of shutdown() and returns
C39_DroppedSenderShutsDown ==
    /\ (sender = "dropped" /\ ~signalled) ~>
          /\ run = "returned"
          /\ listener \in {"stopped", "failed"}
          /\ \A o \in Others : others[o] \in {"stopped", "failed"}
    /\ [][sender = "dropped" /\ run' # run =>
            \/ run = "start" /\ run' = "waiting"
            \/ run = "waiting" /\ run' = "grace"
            \/ run = "grace" /\ run' = "exit_timeout"
            \/ run = "exit_timeout" /\ run' = "returned"]_vars

\* the sender was dropped without a send; both accept loops have exited and run has
\* returned
C39_Witness ==
    /\ sender = "dropped"
    /\ ~signalled
    /\ run = "returned"
    /\ listener = "stopped"
    /\ others[1] = "stopped"

\* C40: the backend chosen for a connection does not depend on its TLS outcome:
\* whenever two connections wait at select in one state, whatever their ServerTls
\* and server names, every result the one gets from its call (the backend, the next
\* step of its task, the state the selector is left in) is a result the other gets
\* from the same state, and it is a result of select with the key None
C40_SelectIgnoresTls ==
    [][\A c \in Pair, d \in Pair :
          (c # d /\ pc[c] = "select" /\ pc[d] = "select" /\ pc'[c] # "select") =>
             \A r \in {selected'[c]}, p \in {pc'[c]}, i \in {index'},
                n \in {counter'}, cs \in {conns'} :
                /\ \E out \in SelectOutcomes(selector, arcs[regPtr], {}, connections,
                                             index, counter, conns) : out.res = r
                /\ ENABLED (/\ hc_select(d)
                            /\ selected'[d] = r
                            /\ pc'[d] = p
                            /\ index' = i
                            /\ counter' = n
                            /\ conns' = cs)]_vars

\* two connections wait at select over a non-empty snapshot, the one Established
\* and the other Passthru
C40_Witness ==
    /\ pc[1] = "select"
    /\ pc[2] = "select"
    /\ serverTls[1] = "Established"
    /\ serverTls[2] = "Passthru"
    /\ arcs[regPtr] # {}
====
